---- MODULE Spec2Model ----
(***************************************************************************)
(* Maya-One voice agent: the resilient conversation orchestrator.          *)
(*                                                                         *)
(* Part 1: provider supervision (core/providers/provider_health.py,        *)
(* provider_supervisor.py) and the resilient STT/TTS proxies               *)
(* (resilient_stt.py, resilient_tts.py).                                   *)
(*                                                                         *)
(* Everything runs on one asyncio event loop: a synchronous method is one  *)
(* atomic step, a coroutine is atomic between two awaits.  Task.cancel()   *)
(* only requests cancellation; CancelledError is delivered when the task   *)
(* next runs.                                                              *)
(*                                                                         *)
(* Lifecycle taken from agent.py: the supervisor is started once, right    *)
(* after construction and before any proxy can reach it (agent.py:145-146),*)
(* and stopped once on shutdown (agent.py:241).                            *)
(*                                                                         *)
(* Task objects are modelled by value: _reconnect_tasks maps a name to the *)
(* state of the task's coroutine, and the unfinished tasks the dict has    *)
(* let go of are kept in a bag.                                            *)
(*                                                                         *)
(* Part 2: the conversation layer (core/session/conversation_session.py,  *)
(* core/audio/audio_session_manager.py, core/orchestrator.py,              *)
(* core/communication.py) and the execution gate (core/governance).        *)
(*                                                                         *)
(* Not modelled here: ProviderHealth.last_success_ts (wall-clock time) and *)
(* the telemetry calls of the two background loops (record_metric).        *)
(***************************************************************************)
EXTENDS Integers, Sequences, FiniteSets, Bags, TLC

\* ------------------------------------------------------------------ bounds
\* cap on ProviderHealth.failure_count (unbounded int in the code)
MaxFailures == 4
\* cap on the attempt index of one reconnect loop (unbounded int in the code)
MaxAttempt == 4
\* reconnect Task objects alive at once (finished, unreferenced ones are collected)
MaxTasks == 2
\* listeners registered with add_listener
MaxListeners == 2
\* streams handed out by the proxies and not yet completed
MaxStreams == 2

\* ------------------------------------------------------------------ program constants
\* provider_health.py:29  "if self.failure_count > 3"
FailureThreshold == 3

\* the names the proxies register under (resilient_stt.py:45, resilient_tts.py:67)
Names == {"stt", "tts"}

\* listener kinds: a plain callable, a plain callable that raises, a coroutine function
ListenerKinds == {"sync", "raises", "async"}

\* identities of the vendor client objects of one kind (STT clients, TTS clients);
\* an identity is reused once neither the proxy nor a stream refers to it
ClientIds == 1..(MaxStreams + 2)

VARIABLES
    health_map,        \* ProviderSupervisor._health_map : name -> ProviderHealth
    providers,         \* ProviderSupervisor._providers  : name -> proxy (its wrapped client)
    reconnect_tasks,   \* ProviderSupervisor._reconnect_tasks : name -> Task (the state
                       \*   of its _reconnect_loop coroutine)
    orphans,           \* bag of the unfinished reconnect Tasks that _reconnect_tasks
                       \*   no longer refers to
    running,           \* ProviderSupervisor._running
    monitoring_task,   \* ProviderSupervisor._monitoring_task
    listeners,         \* ProviderSupervisor._listeners
    notifications,     \* listener invocations made by the latest operation
    streams,           \* streams handed out by the proxies, not yet completed
    conv,              \* the ConversationSession and the orchestrator registered with it
    mgr,               \* the AudioSessionManager and the entrypoint that runs it
    ui,                \* the orchestrator's turn_state, its publish tasks, the UI topic
    ret,               \* what the latest direct call of a caller returned
    audit,             \* the records written to the "audit" logger, in order
    probe,             \* one StreamProbe, the stream it wraps and its consumer
    monitor,           \* the SessionMonitor and the SmartLLM call it measures
    guard,             \* the ChaosGuardrails
    recovery,          \* the SessionMonitor's recovery tracker and the turns it has closed
    chaos,             \* the module-level chaos_config of chaos/fault_injection.py
    experiment,        \* one run_experiment call: where it stands and the turns it ran
    registry,          \* one ToolRegistry
    singletons,        \* the module-level singletons and the callers of their accessors
    limiter,           \* one RateLimiter, the clock and the tasks that acquire it
    collector          \* the SessionMonitor as overlapping writers see it

\* the supervisor and the proxies
supVars == <<health_map, providers, reconnect_tasks, orphans, running, monitoring_task,
             listeners, notifications, streams>>

\* the conversation layer and the callers
sessionVars == <<conv, mgr, ui, ret>>

\* the tool executor, the LLM wrapper and the telemetry
runtimeVars == <<audit, probe, monitor, guard>>

\* the recovery tracker, the chaos experiments, the registry, the rate limiter
chaosVars == <<recovery, chaos, experiment, registry, singletons, limiter, collector>>

vars == <<health_map, providers, reconnect_tasks, orphans, running, monitoring_task,
          listeners, notifications, streams, conv, mgr, ui, ret, audit, probe, monitor,
          guard, recovery, chaos, experiment, registry, singletons, limiter, collector>>

\* ------------------------------------------------------------------ helpers
Min(a, b) == IF a < b THEN a ELSE b

\* dict assignment d[k] = v
Put(d, k, v) == [x \in (DOMAIN d) \cup {k} |-> IF x = k THEN v ELSE d[x]]

\* del d[k]
Del(d, k) == [x \in (DOMAIN d) \ {k} |-> d[x]]

EmptyMap == [x \in {} |-> 0]

\* ------------------------------------------------------------------ ProviderHealth
\* ProviderHealth(name=name): the dataclass defaults
NewHealth == [state |-> "HEALTHY", failure_count |-> 0, last_error |-> FALSE]

\* ProviderHealth.mark_success
mark_success(h) == [state |-> "HEALTHY", failure_count |-> 0, last_error |-> FALSE]

\* mutation of mark_failure: ">= 3" for "> 3"
mark_failure_ge(h) ==
    LET fc == h.failure_count + 1
    IN  [state |-> IF fc >= FailureThreshold THEN "OFFLINE" ELSE "DEGRADED",
         failure_count |-> fc,
         last_error |-> TRUE]

\* ProviderHealth.mark_failure
mark_failure(h) ==
    LET fc == h.failure_count + 1
    IN  [state |-> IF fc > FailureThreshold THEN "OFFLINE" ELSE "DEGRADED",
         failure_count |-> fc,
         last_error |-> TRUE]

\* ------------------------------------------------------------------ listeners
\* one listener invocation inside _notify_listeners: a coroutine function is
\* scheduled with create_task, a plain callable is called; an exception it raises
\* is caught and logged inside the loop
Invoke(i, kind, name, h) ==
    [listener |-> i, name |-> name, state |-> h.state,
     how |-> CASE kind = "async"  -> "scheduled"
               [] kind = "raises" -> "raised"
               [] OTHER           -> "called"]

\* mutation of _notify_listeners: the try/except is around the loop, not inside it,
\* so the first listener that raises ends the fan-out
notify_listeners_abort(ls, hm, name) ==
    IF name \in DOMAIN hm
    THEN LET bad == {i \in 1..Len(ls) : ls[i] = "raises"}
             n == IF bad = {} THEN Len(ls) ELSE CHOOSE i \in bad : \A j \in bad : i <= j
         IN  [i \in 1..n |-> Invoke(i, ls[i], name, hm[name])]
    ELSE <<>>

\* ProviderSupervisor._notify_listeners: the invocations it makes, in order
notify_listeners(ls, hm, name) ==
    IF name \in DOMAIN hm
    THEN [i \in 1..Len(ls) |-> Invoke(i, ls[i], name, hm[name])]
    ELSE <<>>

\* ------------------------------------------------------------------ reconnect tasks
\* backoff_schedule of _reconnect_loop
backoff_schedule == <<2, 5, 10, 30>>

\* mutation of sleep_time: the index is not clamped to the last entry but wraps
sleep_time_wrap(attempt) == backoff_schedule[(attempt % Len(backoff_schedule)) + 1]

\* sleep_time = backoff_schedule[min(attempt, len(backoff_schedule) - 1)]  (0-based)
sleep_time(attempt) == backoff_schedule[Min(attempt, Len(backoff_schedule) - 1) + 1]

\* asyncio.create_task(self._reconnect_loop(name)): created, not yet run
NewTask(name) ==
    [name |-> name, pc |-> "new", attempt |-> 0, waits |-> <<>>, proxy_current |-> FALSE]

\* a task whose coroutine has returned; its locals are gone
DoneTask(name) ==
    [name |-> name, pc |-> "done", attempt |-> 0, waits |-> <<>>, proxy_current |-> FALSE]

\* a task with a cancellation request pending: when it next runs it gets
\* CancelledError and breaks out of the loop, so its locals are never read again
CancellingTask(name) ==
    [name |-> name, pc |-> "cancelling", attempt |-> 0, waits |-> <<>>, proxy_current |-> FALSE]

\* mutation of Cancel: the request is lost
Cancel_lost(t) == t

\* Task.cancel(): a finished task is left alone, any other gets the request
Cancel(t) == IF t.pc = "done" THEN t ELSE CancellingTask(t.name)

\* a task _reconnect_tasks lets go of: it lives on until its coroutine has returned
Orphan(orph, t) == IF t.pc = "done" THEN orph ELSE orph (+) SetToBag({t})

\* the supervisor's mutable state as one value, for the methods below
Sup == [hm |-> health_map, rt |-> reconnect_tasks, orph |-> orphans]

\* number of Task objects alive
TaskCount(s) == Cardinality(DOMAIN s.rt) + BagCardinality(s.orph)

\* self._reconnect_tasks[name] = asyncio.create_task(self._reconnect_loop(name))
Spawn(s, name) ==
    [s EXCEPT !.rt = Put(s.rt, name, NewTask(name)),
              !.orph = IF name \in DOMAIN s.rt THEN Orphan(s.orph, s.rt[name]) ELSE s.orph]

\* ------------------------------------------------------------------ supervisor methods
\* mutation of mark_failed: the "name not in self._reconnect_tasks" test is missing
mark_failed_respawn(s, name) ==
    IF name \notin DOMAIN s.hm THEN s
    ELSE LET s1 == [s EXCEPT !.hm = Put(s.hm, name, mark_failure(s.hm[name]))]
         IN  IF s1.hm[name].state = "OFFLINE"
             THEN Spawn(s1, name)
             ELSE s1

\* ProviderSupervisor.mark_failed, without the notification
mark_failed(s, name) ==
    IF name \notin DOMAIN s.hm THEN s
    ELSE LET s1 == [s EXCEPT !.hm = Put(s.hm, name, mark_failure(s.hm[name]))]
         IN  IF s1.hm[name].state = "OFFLINE" /\ name \notin DOMAIN s1.rt
             THEN Spawn(s1, name)
             ELSE s1

\* mutation of mark_healthy: the task is cancelled, "del" is missing
mark_healthy_nodel(s, name) ==
    IF name \notin DOMAIN s.hm THEN s
    ELSE LET s1 == [s EXCEPT !.hm = Put(s.hm, name, mark_success(s.hm[name]))]
         IN  IF name \in DOMAIN s1.rt
             THEN [s1 EXCEPT !.rt = Put(s1.rt, name, Cancel(s1.rt[name]))]
             ELSE s1

\* ProviderSupervisor.mark_healthy, without the notification
mark_healthy(s, name) ==
    IF name \notin DOMAIN s.hm THEN s
    ELSE LET s1 == [s EXCEPT !.hm = Put(s.hm, name, mark_success(s.hm[name]))]
         IN  IF name \in DOMAIN s1.rt
             THEN [s1 EXCEPT !.orph = Orphan(s1.orph, Cancel(s1.rt[name])),
                             !.rt = Del(s1.rt, name)]
             ELSE s1

\* the bounds: failure_count stays within MaxFailures, the tasks within MaxTasks
CanFail(s, name) ==
    /\ name \in DOMAIN s.hm => s.hm[name].failure_count < MaxFailures
    /\ TaskCount(mark_failed(s, name)) <= MaxTasks

\* install a supervisor state
SetSup(s) ==
    /\ health_map' = s.hm
    /\ reconnect_tasks' = s.rt
    /\ orphans' = s.orph

\* ------------------------------------------------------------------ initial state
\* no ConversationSession constructed yet; attached records the sessions handed to
\* attach_audio_session of this object, announced what the latest step enqueued
NoConversation ==
    [exists |-> FALSE, user_id |-> "none", memory_manager |-> "none",
     orchestrator |-> "none", orch_session |-> 0, current_audio_session |-> 0,
     attached |-> <<>>, audio_state |-> "HEALTHY", announced |-> <<>>]

\* the delays of the AudioSessionManager are counted in 1/64 s: every value the
\* float arithmetic of run() produces below the cap is a multiple of it
TicksPerSecond == 64

\* self._reconnect_delay = 2.0
InitialDelay == 2 * TicksPerSecond

\* self._max_delay = 30.0
MaxDelay == 30 * TicksPerSecond

\* AudioSessionManager.__init__, run() not yet called; made counts the sessions the
\* factory has returned, crashed and sleeps record what run() has done
NewManager ==
    [pc |-> "idle", running |-> FALSE, reconnect_delay |-> InitialDelay, session |-> 0,
     made |-> 0, crashed |-> {}, sleeps |-> <<>>, cancel |-> FALSE, exit |-> "none"]

\* AgentOrchestrator.__init__: turn_state, with the publish tasks and the UI topic
NewUi ==
    [current_turn_id |-> 0, user_message |-> "", assistant_buffer |-> "", delta_seq |-> 0,
     tasks |-> <<>>, events |-> <<>>]

\* no direct call made yet
NoRet == [op |-> "none", arg |-> "none", value |-> FALSE]

\* ProviderSupervisor.__init__
\* the "audit" logger before any record
NoAudit == <<>>

\* StreamProbe.__init__ around a stream nobody has read yet
NewProbe ==
    [made |-> FALSE, stream |-> "none", events |-> <<>>, chunk_count |-> 0,
     first_chunk_received |-> FALSE, closed |-> FALSE, got |-> "none", error |-> "none"]

\* RequestMetrics(), by the fields SmartLLM writes
NewRequestMetrics ==
    [tokens_out |-> 0, llm_latency |-> "unset", stream_first_chunk_latency |-> "unset",
     probe_failures |-> 0]

\* SessionMonitor._initialize, and no SmartLLMStream._run under way: where the latest
\* run stands, its local tokens_out, what it met and what it raised
NewMonitor ==
    [current_metrics |-> NewRequestMetrics, metrics_history |-> <<>>,
     pc |-> "idle", tokens_out |-> 0, met |-> "none", raised |-> "none", runs |-> 0]

\* ChaosGuardrails.__init__ (elapsed: the seconds since session_start_time)
NewGuard ==
    [total_tokens_used |-> 0, consecutive_failures |-> 0, elapsed |-> 0,
     emergency_stop_triggered |-> FALSE]

\* RequestMetrics(), by the fields the recovery tracker reads and writes (latencies in
\* tenths of a second)
NewTurnMetrics ==
    [context_size |-> 0, llm_latency |-> 0, stream_first_chunk_latency |-> 0,
     retry_count |-> 0, memory_retrieval_count |-> 0, system_recovery_turns |-> 0]

\* SessionMonitor._initialize, by the recovery tracker (recovery_start_turn is not an
\* attribute until the first degradation)
NewRecovery ==
    [current_metrics |-> NewTurnMetrics, metrics_history |-> <<>>,
     consecutive_healthy_turns |-> 0, in_recovery |-> FALSE, recovery_start_turn |-> "unset"]

\* ChaosConfig(): the module-level _chaos_config before load_from_env (multipliers and
\* factors in tenths, probabilities and rates in percent; None is "none")
NewChaos ==
    [enabled |-> FALSE, experiment_id |-> "none", experiment_type |-> "none",
     llm_latency_multiplier |-> 10, rate_limit_probability |-> 0, tool_failure_rate |-> 0,
     persistence_failure_rate |-> 0, memory_inflation_factor |-> 10,
     long_session_mode |-> FALSE]

\* no run_experiment call made yet: where the call stands, its experiment dict (turns,
\* faults), the phase and number of the turn whose router.route is awaited, the turns
\* begun so far, and the report returned
NewExperiment ==
    [pc |-> "idle", turns |-> [baseline |-> 0, chaos |-> 0, recovery |-> 0],
     faults |-> <<>>, phase |-> "none", turn |-> 0, ran |-> <<>>, report |-> "none"]

\* ToolRegistry.__init__
NewRegistry == [_tools |-> <<>>, _categories |-> <<>>]

\* the module globals _registry (tool_registry.py:268) and _classifier, _classifier_lock
\* (intent_layer.py:358-359): the instance each refers to (0: None), the instances
\* constructed so far, the holder of the lock (0: free), and the threads inside an accessor
NewSingletons ==
    [_registry |-> 0, registries |-> 0, _classifier |-> 0, classifiers |-> 0,
     _classifier_lock |-> 0, callers |-> <<>>]

\* no RateLimiter made yet: its attributes, the reading of time.time() (in periods of
\* the test limiters), the acquire() calls under way and the acquisitions completed
NewLimiter ==
    [made |-> FALSE, max_calls |-> 0, period |-> 0, calls |-> <<>>, lock |-> 0,
     clock |-> 0, tasks |-> <<>>, acquired |-> <<>>]

\* SessionMonitor._initialize as its concurrent writers see it: the RequestMetrics
\* objects made so far (object 1 is the one of _initialize; an object is the set of
\* <<writer, metric>> assignments made to it), the object current_metrics refers to,
\* metrics_history as the objects appended and the stream that appended each, and
\* where each SmartLLMStream._run stands
NewCollector ==
    [objects |-> <<{}>>, current_metrics |-> 1, metrics_history |-> <<>>, streams |-> <<>>]


Init ==
    /\ recovery = NewRecovery
    /\ chaos = NewChaos
    /\ experiment = NewExperiment
    /\ registry = NewRegistry
    /\ singletons = NewSingletons
    /\ limiter = NewLimiter
    /\ collector = NewCollector
    /\ audit = NoAudit
    /\ probe = NewProbe
    /\ monitor = NewMonitor
    /\ guard = NewGuard
    /\ conv = NoConversation
    /\ mgr = NewManager
    /\ ui = NewUi
    /\ ret = NoRet
    /\ health_map = EmptyMap
    /\ providers = EmptyMap
    /\ reconnect_tasks = EmptyMap
    /\ orphans = EmptyBag
    /\ running = FALSE
    /\ monitoring_task = "none"
    /\ listeners = <<>>
    /\ notifications = <<>>
    /\ streams = EmptyBag

Started == monitoring_task # "none"

\* ------------------------------------------------------------------ supervisor API
\* ProviderSupervisor.add_listener
AddListener(kind) ==
    /\ Started
    /\ Len(listeners) < MaxListeners
    /\ listeners' = Append(listeners, kind)
    /\ notifications' = <<>>
    /\ UNCHANGED <<health_map, providers, reconnect_tasks, orphans, running,
                   monitoring_task, streams>>

\* the client identities of kind name that no stream and none of the proxies in px
\* refers to
FreeClientIds(px, name) ==
    ClientIds \ ({px[n].client : n \in DOMAIN px \cap {name}}
                 \cup {st.client : st \in {x \in BagToSet(streams) : x.name = name}})

\* a newly constructed client of kind name
FreshClient(px, name) ==
    CHOOSE c \in FreeClientIds(px, name) : \A d \in FreeClientIds(px, name) : c <= d

\* the proxy a reconnect task holds in its local variable is no longer the registered one
UnhookTask(t, name) == IF t.name = name THEN [t EXCEPT !.proxy_current = FALSE] ELSE t

RECURSIVE UnhookBag(_, _)
UnhookBag(orph, name) ==
    IF orph = EmptyBag THEN EmptyBag
    ELSE LET t == CHOOSE x \in BagToSet(orph) : TRUE
         IN  UnhookBag(orph (-) SetToBag({t}), name) (+) SetToBag({UnhookTask(t, name)})

\* ResilientSTTProxy.__init__ / ResilientTTSProxy.__init__: self._provider = provider
NewProxy(c) == [client |-> c]

\* ProviderSupervisor.register_provider
register_provider(s, name) == [s EXCEPT !.hm = Put(s.hm, name, NewHealth)]

\* ResilientSTTProxy.__init__ / ResilientTTSProxy.__init__ (one per audio session,
\* agent.py session_factory) ending in ProviderSupervisor.register_provider
RegisterProvider(name) ==
    /\ Started
    \* the proxy registered before, and the client it wraps, go with their audio session
    /\ providers' = Put(providers, name, NewProxy(FreshClient(Del(providers, name), name)))
    /\ health_map' = register_provider(Sup, name).hm
    /\ reconnect_tasks' = [n \in DOMAIN reconnect_tasks |-> UnhookTask(reconnect_tasks[n], name)]
    /\ orphans' = UnhookBag(orphans, name)
    /\ notifications' = <<>>
    /\ UNCHANGED <<running, monitoring_task, listeners, streams>>

\* ProviderSupervisor.mark_failed(name, error)
MarkFailed(name) ==
    /\ Started
    /\ CanFail(Sup, name)
    /\ LET s == mark_failed(Sup, name)
       IN  /\ SetSup(s)
           /\ notifications' = notify_listeners(listeners, s.hm, name)
    /\ UNCHANGED <<providers, running, monitoring_task, listeners, streams>>

\* ProviderSupervisor.mark_healthy(name)
MarkHealthy(name) ==
    /\ Started
    /\ LET s == mark_healthy(Sup, name)
       IN  /\ SetSup(s)
           /\ notifications' = notify_listeners(listeners, s.hm, name)
    /\ UNCHANGED <<providers, running, monitoring_task, listeners, streams>>

\* ProviderSupervisor.start
Start ==
    /\ ~Started
    /\ IF running
       THEN UNCHANGED <<running, monitoring_task>>
       ELSE /\ running' = TRUE
            /\ monitoring_task' = "new"
    /\ notifications' = <<>>
    /\ UNCHANGED <<health_map, providers, reconnect_tasks, orphans, listeners, streams>>

\* ProviderSupervisor.stop: the monitoring task and every task in
\* self._reconnect_tasks.values() is cancelled; the dict keeps its entries
Stop ==
    /\ Started
    /\ running
    /\ running' = FALSE
    /\ monitoring_task' = IF monitoring_task = "done" THEN "done" ELSE "cancelling"
    /\ reconnect_tasks' = [n \in DOMAIN reconnect_tasks |-> Cancel(reconnect_tasks[n])]
    /\ notifications' = <<>>
    /\ UNCHANGED <<health_map, providers, orphans, listeners, streams>>

\* ------------------------------------------------------------------ background loops
\* the body of the monitor's for-loop for one name: re-arm a reconnect task
MonitorVisit(s, name) ==
    IF s.hm[name].state = "OFFLINE" /\ name \notin DOMAIN s.rt
    THEN Spawn(s, name)
    ELSE s

\* for name, health in self._health_map.items()
RECURSIVE MonitorScan(_, _)
MonitorScan(s, todo) ==
    IF todo = {} THEN s
    ELSE LET n == CHOOSE x \in todo : TRUE
         IN  MonitorScan(MonitorVisit(s, n), todo \ {n})

\* one run of the _main_monitoring_loop task, from one await to the next
MonitorStep ==
    /\ monitoring_task \in {"new", "sleep", "cancelling"}
    /\ IF monitoring_task = "cancelling" \/ ~running
       THEN /\ monitoring_task' = "done"
            /\ UNCHANGED <<health_map, reconnect_tasks, orphans>>
       ELSE /\ TaskCount(MonitorScan(Sup, DOMAIN health_map)) <= MaxTasks
            /\ monitoring_task' = "sleep"
            /\ SetSup(MonitorScan(Sup, DOMAIN health_map))
    /\ notifications' = <<>>
    /\ UNCHANGED <<providers, running, listeners, streams>>

\* the head of "while self._running": leave the loop, or compute sleep_time and sleep
LoopHead(t) ==
    IF ~running
    THEN DoneTask(t.name)
    ELSE [t EXCEPT !.pc = "sleep", !.waits = Append(@, sleep_time(t.attempt))]

\* a failed attempt: attempt += 1, then back to the head of the loop
Failed(t) == LoopHead([t EXCEPT !.attempt = @ + 1, !.proxy_current = FALSE])

\* ResilientSTTProxy.replace_provider / ResilientTTSProxy.replace_provider
replace_provider(px, new) == [px EXCEPT !.client = new]

\* where a Task object is: "dict" (it is _reconnect_tasks[name]) or "orphan"
TaskAt(loc, name) ==
    IF loc = "dict"
    THEN IF name \in DOMAIN reconnect_tasks THEN {reconnect_tasks[name]} ELSE {}
    ELSE {t \in BagToSet(orphans) : t.name = name}

\* the supervisor state with task t at loc replaced by t2 (a finished orphan is gone)
PutTask(s, loc, t, t2) ==
    IF loc = "dict"
    THEN [s EXCEPT !.rt = Put(s.rt, t.name, t2)]
    ELSE [s EXCEPT !.orph = Orphan(s.orph (-) SetToBag({t}), t2)]

\* what one run of the task changes in the task itself, apart from a success
Advance(t, outcome) ==
    CASE t.pc = "cancelling" -> DoneTask(t.name)
      [] t.pc = "new"        -> LoopHead(t)
      [] t.pc = "sleep"      -> IF t.name \in DOMAIN providers
                                THEN [t EXCEPT !.pc = "attempt", !.proxy_current = TRUE]
                                ELSE Failed(t)
      [] t.pc = "attempt"    -> Failed(t)

\* mutation of Succeed: break without mark_healthy
Succeed_nomark(s, loc, t) == PutTask(s, loc, t, DoneTask(t.name))

\* a success: mark_healthy(name), which cancels and forgets _reconnect_tasks[name],
\* then break
Succeed(s, loc, t) == mark_healthy(PutTask(s, loc, t, DoneTask(t.name)), t.name)

AttemptOutcomes == {"ok", "false", "raise"}

\* one run of a _reconnect_loop task, from one await to the next; outcome is what
\* proxy.attempt_reconnect() gives when the task is resumed from it
ReconnectStep(loc, name, outcome) ==
    \E t \in TaskAt(loc, name) :
        /\ t.pc # "done"
        /\ IF t.pc = "attempt" /\ outcome = "ok"
           THEN \* the factory gave a client: replace_provider, return True,
                \* then mark_healthy(name) and break
                LET s == Succeed(Sup, loc, t)
                IN  /\ providers' = IF t.proxy_current
                                     THEN [providers EXCEPT ![name] =
                                              replace_provider(@, FreshClient(providers, name))]
                                     ELSE providers
                    /\ SetSup(s)
                    /\ notifications' = notify_listeners(listeners, s.hm, name)
           ELSE /\ t.pc = "attempt" \/ outcome = "ok"
                /\ Advance(t, outcome).attempt <= MaxAttempt
                /\ SetSup(PutTask(Sup, loc, t, Advance(t, outcome)))
                /\ notifications' = <<>>
                /\ UNCHANGED providers
        /\ UNCHANGED <<running, monitoring_task, listeners, streams>>

\* ------------------------------------------------------------------ the proxies
\* the methods of a proxy that hand out a stream
Methods(name) == IF name = "stt" THEN {"stream"} ELSE {"synthesize", "stream"}

\* what the wrapped provider's method returns
RealStream(name, method) ==
    CASE name = "stt"          -> "SpeechStream"
      [] method = "synthesize" -> "ChunkedStream"
      [] OTHER                 -> "SynthesizeStream"

\* what the except branch of the method constructs
FallbackStream(name, method) ==
    CASE name = "stt"          -> "EmptyTranscriptStream"
      [] method = "synthesize" -> "SilentChunkedStream"
      [] OTHER                 -> "SilentSynthesizeStream"

\* what a stream's _run puts out: EmptyTranscriptStream sleeps for ever, the Silent
\* streams push zero bytes, any other is the vendor's
Emits(kind) ==
    CASE kind = "EmptyTranscriptStream"                            -> "nothing"
      [] kind \in {"SilentChunkedStream", "SilentSynthesizeStream"} -> "silence"
      [] OTHER                                                     -> "vendor"

\* mutation of proxy_call: the provider's stream comes from the client the proxy
\* was constructed with
proxy_call_pinned(px, s, name, method, outcome) ==
    IF outcome = "ok"
    THEN [s |-> mark_healthy(s, name),
          stream |-> [name |-> name, client |-> 1, kind |-> RealStream(name, method)]]
    ELSE [s |-> mark_failed(s, name),
          stream |-> [name |-> name, client |-> 0, kind |-> FallbackStream(name, method)]]

\* mutation of proxy_call: the except branch does not tell the supervisor
proxy_call_unrecorded(px, s, name, method, outcome) ==
    IF outcome = "ok"
    THEN [s |-> mark_healthy(s, name),
          stream |-> [name |-> name, client |-> px.client, kind |-> RealStream(name, method)]]
    ELSE [s |-> s,
          stream |-> [name |-> name, client |-> 0, kind |-> FallbackStream(name, method)]]

\* ResilientSTTProxy.stream, ResilientTTSProxy.synthesize, ResilientTTSProxy.stream,
\* without the notification: the supervisor state after the call and the stream the
\* call returns (both branches end in a return, "except Exception" lets nothing of
\* the provider through); outcome is what self._provider's method does
proxy_call(px, s, name, method, outcome) ==
    IF outcome = "ok"
    THEN [s |-> mark_healthy(s, name),
          stream |-> [name |-> name, client |-> px.client, kind |-> RealStream(name, method)]]
    ELSE [s |-> mark_failed(s, name),
          stream |-> [name |-> name, client |-> 0, kind |-> FallbackStream(name, method)]]

CallOutcomes == {"ok", "raise"}

\* a caller's proxy.stream(...) / proxy.synthesize(...)
ProxyCall(name, method, outcome) ==
    /\ Started
    /\ name \in DOMAIN providers
    /\ BagCardinality(streams) < MaxStreams
    /\ outcome = "raise" => CanFail(Sup, name)
    /\ LET r == proxy_call(providers[name], Sup, name, method, outcome)
       IN  /\ SetSup(r.s)
           /\ notifications' = notify_listeners(listeners, r.s.hm, name)
           /\ streams' = streams (+) SetToBag({r.stream})
    /\ UNCHANGED <<providers, running, monitoring_task, listeners>>

\* a caller's proxy.replace_provider(new_provider)
ReplaceProvider(name) ==
    /\ Started
    /\ name \in DOMAIN providers
    /\ providers' = [providers EXCEPT ![name] = replace_provider(@, FreshClient(providers, name))]
    /\ notifications' = <<>>
    /\ UNCHANGED <<health_map, reconnect_tasks, orphans, running, monitoring_task,
                   listeners, streams>>

\* mutation of attempt_reconnect: the old client is let go before the factory runs
attempt_reconnect_dropfirst(px, new, factory) ==
    IF factory = "client"
    THEN [px |-> replace_provider(px, new), result |-> TRUE]
    ELSE [px |-> replace_provider(px, 0), result |-> FALSE]

\* ResilientSTTProxy.attempt_reconnect / ResilientTTSProxy.attempt_reconnect: the
\* proxy after the call and the result; factory is what self._factory_fn() does,
\* new the client it returns
attempt_reconnect(px, new, factory) ==
    IF factory = "client"
    THEN [px |-> replace_provider(px, new), result |-> TRUE]
    ELSE [px |-> px, result |-> FALSE]

FactoryOutcomes == {"client", "raise"}

\* a caller's await proxy.attempt_reconnect()
AttemptReconnect(name, factory) ==
    /\ Started
    /\ name \in DOMAIN providers
    /\ LET r == attempt_reconnect(providers[name], FreshClient(providers, name), factory)
       IN  /\ providers' = [providers EXCEPT ![name] = r.px]
           /\ ret' = [op |-> "attempt_reconnect", arg |-> name, value |-> r.result]
    /\ notifications' = <<>>
    /\ UNCHANGED <<health_map, reconnect_tasks, orphans, running, monitoring_task,
                   listeners, streams, conv, mgr, ui, runtimeVars, chaosVars>>

\* a stream handed out earlier runs to its end or is closed by its consumer
StreamComplete(st) ==
    /\ BagIn(st, streams)
    /\ streams' = streams (-) SetToBag({st})
    /\ notifications' = <<>>
    /\ UNCHANGED <<health_map, providers, reconnect_tasks, orphans, running,
                   monitoring_task, listeners>>

\* ------------------------------------------------------------------ ConversationSession
\* the provider names _on_provider_health_change reacts to
VoiceNames == {"stt_provider", "stt", "deepgram"}

TroubleNotice == "I am having trouble hearing you. Reconnecting voice services..."

RestoredNotice == "Voice connection restored."

\* nothing enqueued by the step so far
Quiet(c) == [c EXCEPT !.announced = <<>>]

\* ConversationSession._announce: a_speak is scheduled on the orchestrator's session,
\* when there is an orchestrator and it has a session
announce(c, message) ==
    IF c.orchestrator # "none" /\ c.orch_session # 0
    THEN [c EXCEPT !.announced = Append(@, message)]
    ELSE c

\* ConversationSession._on_provider_health_change(name, health)
on_provider_health_change(c, name, state) ==
    IF name \in VoiceNames
    THEN IF state # "HEALTHY"
         THEN IF c.audio_state # "RECONNECTING"
              THEN announce([c EXCEPT !.audio_state = "RECONNECTING"], TroubleNotice)
              ELSE c
         ELSE IF c.audio_state = "RECONNECTING"
              THEN announce([c EXCEPT !.audio_state = "HEALTHY"], RestoredNotice)
              ELSE c
    ELSE c

\* the conversation after the supervisor's fan-out nt: its listener is called with
\* every invocation made to the listener it registered
Hear(c, ls, nt) ==
    LET mine == {i \in 1..Len(nt) : ls[nt[i].listener] = "conversation"}
    IN  IF mine = {} THEN Quiet(c)
        ELSE LET i == CHOOSE k \in mine : TRUE
             IN  on_provider_health_change(Quiet(c), nt[i].name, nt[i].state)

\* self.orchestrator.set_session(s): AgentOrchestrator defines no set_session, the
\* attribute lookup raises AttributeError and orchestrator.session stays as it was
set_session(c, s) == [c |-> c, raised |-> TRUE]

\* ConversationSession.attach_audio_session(session): the conversation after the
\* call and whether the call raised
attach_audio_session(c, s) ==
    LET c1 == [c EXCEPT !.current_audio_session = s, !.attached = Append(@, s)]
    IN  IF c1.orchestrator # "none" THEN set_session(c1, s) ELSE [c |-> c1, raised |-> FALSE]

\* ConversationSession.detach_audio_session()
detach_audio_session(c) ==
    LET c1 == [c EXCEPT !.current_audio_session = 0]
    IN  IF c1.orchestrator # "none" THEN set_session(c1, 0) ELSE [c |-> c1, raised |-> FALSE]

\* ConversationSession.is_audio_connected
is_audio_connected(c) == c.current_audio_session # 0

\* ConversationSession(user_id, memory_manager, supervisor), agent.py:150-154: the
\* constructor registers _on_provider_health_change with the supervisor
ConstructConversation ==
    /\ Started
    /\ ~conv.exists
    /\ conv' = [NoConversation EXCEPT !.exists = TRUE, !.user_id = "user-1",
                                      !.memory_manager = "memory-1"]
    /\ listeners' = Append(listeners, "conversation")
    /\ notifications' = <<>>
    /\ UNCHANGED <<health_map, providers, reconnect_tasks, orphans, running,
                   monitoring_task, streams, mgr, ui, ret, runtimeVars, chaosVars>>

\* the session an orchestrator is constructed with: None (agent.py:192) or a session
\* of the caller's
CallerSession == 99

\* AgentOrchestrator(ctx, agent, session) and conversation.register_orchestrator(it)
RegisterOrchestrator(session) ==
    /\ conv.exists
    /\ conv.orchestrator = "none"
    /\ conv' = [Quiet(conv) EXCEPT !.orchestrator = "AgentOrchestrator",
                                   !.orch_session = session]
    /\ notifications' = <<>>
    /\ UNCHANGED <<health_map, providers, reconnect_tasks, orphans, running,
                   monitoring_task, listeners, streams, mgr, ui, ret, runtimeVars, chaosVars>>

\* the attach calls made on one conversation, and the sessions they are made with
MaxAttach == 3

\* conversation.attach_audio_session(s) called directly
AttachAudioSession(s) ==
    /\ conv.exists
    /\ Len(conv.attached) < MaxAttach
    /\ LET r == attach_audio_session(Quiet(conv), s)
       IN  /\ conv' = r.c
           /\ ret' = [op |-> "attach_audio_session", arg |-> "session", value |-> ~r.raised]
    /\ notifications' = <<>>
    /\ UNCHANGED <<health_map, providers, reconnect_tasks, orphans, running,
                   monitoring_task, listeners, streams, mgr, ui, runtimeVars, chaosVars>>

\* conversation.detach_audio_session() called directly
DetachAudioSession ==
    /\ conv.exists
    /\ LET r == detach_audio_session(Quiet(conv))
       IN  /\ conv' = r.c
           /\ ret' = [op |-> "detach_audio_session", arg |-> "none", value |-> ~r.raised]
    /\ notifications' = <<>>
    /\ UNCHANGED <<health_map, providers, reconnect_tasks, orphans, running,
                   monitoring_task, listeners, streams, mgr, ui, runtimeVars, chaosVars>>

\* a supervisor step together with what it makes the conversation's listener do
WithConversation(A) ==
    /\ A
    /\ conv' = Hear(conv, listeners', notifications')
    /\ UNCHANGED <<mgr, ui, ret, runtimeVars, chaosVars>>

\* ------------------------------------------------------------------ governance
\* RiskLevel (IntEnum)
READ_ONLY == 0

LOW == 1

MEDIUM == 2

HIGH == 3

CRITICAL == 4

\* UserRole (IntEnum)
GUEST == 0

USER == 1

TRUSTED == 2

ADMIN == 3

UserRoles == {GUEST, USER, TRUSTED, ADMIN}

\* ToolRiskPolicy._POLICY
POLICY ==
    [t \in {"get_current_datetime", "get_date", "get_time"} |-> READ_ONLY]
    @@ [t \in {"get_weather", "search_web"} |-> LOW]
    @@ [t \in {"list_alarms", "list_reminders", "list_notes", "read_note",
               "list_calendar_events"} |-> MEDIUM]
    @@ [t \in {"set_alarm", "delete_alarm", "set_reminder", "delete_reminder",
               "create_note", "delete_note", "create_calendar_event",
               "delete_calendar_event", "send_email", "open_app", "close_app"} |-> HIGH]

\* str.lower() on the names that are not lower case already
Lowered ==
    [GET_TIME |-> "get_time", Search_Web |-> "search_web", List_Notes |-> "list_notes",
     SEND_EMAIL |-> "send_email", Format_Disk |-> "format_disk"]

lower(name) == IF name \in DOMAIN Lowered THEN Lowered[name] ELSE name

\* the tool names a caller asks about: those of the policy, differently cased ones,
\* unknown ones
ToolNames == DOMAIN POLICY \cup DOMAIN Lowered \cup {"format_disk", "shutdown", ""}

\* ToolRiskPolicy.get_risk
get_risk(tool_name) ==
    LET normalized_name == lower(tool_name)
    IN  IF normalized_name \in DOMAIN POLICY THEN POLICY[normalized_name] ELSE HIGH

\* UserRole.max_risk
max_risk(role) ==
    IF role = ADMIN THEN CRITICAL
    ELSE IF role = TRUSTED THEN HIGH
    ELSE IF role = USER THEN MEDIUM
    ELSE LOW

\* mutation of check_access: ">=" for ">"
check_access_ge(tool_name, user_role) ==
    IF get_risk(tool_name) >= max_risk(user_role) THEN FALSE ELSE TRUE

\* ExecutionGate.check_access
check_access(tool_name, user_role) ==
    IF get_risk(tool_name) > max_risk(user_role) THEN FALSE ELSE TRUE

\* a caller asks the gate
CheckAccess(tool_name, user_role) ==
    /\ ret' = [op |-> "check_access", arg |-> <<tool_name, user_role>>,
               value |-> check_access(tool_name, user_role)]
    /\ UNCHANGED <<health_map, providers, reconnect_tasks, orphans, running,
                   monitoring_task, listeners, notifications, streams, conv, mgr, ui, runtimeVars, chaosVars>>

\* ------------------------------------------------------------------ AgentOrchestrator
\* the turns of one job
MaxTurns == 5

\* who a transcription comes from: no participant, a remote one, the local one
Participants == {"none", "remote", "local"}

\* communication.publish_user_message: the event it hands to publish_chat_event
user_message(turn_id) == [type |-> "user_message", turn_id |-> turn_id, seq |-> 0]

\* mutation of on_transcription_received: an interim transcription opens a turn too
on_transcription_received_interim(u, is_final, participant) ==
    IF participant = "local"
    THEN [u EXCEPT !.current_turn_id = @ + 1, !.user_message = "text",
                   !.assistant_buffer = "", !.delta_seq = 0,
                   !.tasks = Append(@, user_message(u.current_turn_id + 1))]
    ELSE u

\* AgentOrchestrator._on_transcription_received: a final transcription of the local
\* participant opens a turn (uuid4: an id not used before), resets turn_state and
\* creates the task that publishes user_message
on_transcription_received(u, is_final, participant) ==
    IF is_final /\ participant = "local"
    THEN [u EXCEPT !.current_turn_id = @ + 1, !.user_message = "text",
                   !.assistant_buffer = "", !.delta_seq = 0,
                   !.tasks = Append(@, user_message(u.current_turn_id + 1))]
    ELSE u

\* the room emits transcription_received
TranscriptionReceived(is_final, participant) ==
    /\ ui.current_turn_id < MaxTurns
    /\ ui' = on_transcription_received(ui, is_final, participant)
    /\ UNCHANGED <<health_map, providers, reconnect_tasks, orphans, running,
                   monitoring_task, listeners, notifications, streams, conv, mgr, ret, runtimeVars, chaosVars>>

\* what room.local_participant.publish_data does: it sends, or it raises
PublishOutcomes == {"sent", "raise"}

\* communication.publish_chat_event, run by the oldest publish task: the event goes
\* to the chat_events topic; an exception of publish_data is logged and the event
\* is lost
publish_chat_event(u, outcome) ==
    [u EXCEPT !.tasks = Tail(@),
              !.events = IF outcome = "sent" THEN Append(@, Head(u.tasks)) ELSE @]

\* one publish task runs
PublishStep(outcome) ==
    /\ ui.tasks # <<>>
    /\ ui' = publish_chat_event(ui, outcome)
    /\ UNCHANGED <<health_map, providers, reconnect_tasks, orphans, running,
                   monitoring_task, listeners, notifications, streams, conv, mgr, ret, runtimeVars, chaosVars>>

\* ------------------------------------------------------------------ AudioSessionManager
\* the crashes one run of the manager goes through
MaxRestarts == 8

\* what self.session_factory() does: a new session, or an exception
FactoryResults == {"session", "raise"}

\* mutation of next_delay: the cap is not applied
next_delay_nocap(d) == (d * 3) \div 2

\* self._reconnect_delay = min(self._reconnect_delay * 1.5, self._max_delay)
next_delay(d) == Min((d * 3) \div 2, MaxDelay)

\* run() leaves by return or by exception
Leave(m, how) == [m EXCEPT !.pc = "done", !.exit = how]

\* the except Exception block of run() up to its sleep: detach, then sleep the current
\* delay; an exception of detach leaves the handler and run()
handle_crash(m, c) ==
    LET d == detach_audio_session(c)
    IN  IF d.raised
        THEN [m |-> Leave(m, "error"), c |-> d.c]
        ELSE [m |-> [m EXCEPT !.pc = "sleep", !.sleeps = Append(@, m.reconnect_delay)],
              c |-> d.c]

\* mutation of iterate: every restart builds a conversation of its own around a new
\* memory manager and attaches the session to that
iterate_rebuild(m, c, fo) ==
    IF ~m.running THEN [m |-> Leave(m, "stopped"), c |-> c]
    ELSE IF fo = "raise" THEN handle_crash(m, c)
    ELSE LET m1 == [m EXCEPT !.made = @ + 1, !.session = m.made + 1]
             a == attach_audio_session([NoConversation EXCEPT !.exists = TRUE,
                                           !.user_id = c.user_id,
                                           !.memory_manager = "memory-2",
                                           !.orchestrator = c.orchestrator,
                                           !.orch_session = c.orch_session], m1.session)
         IN  IF a.raised THEN handle_crash(m1, a.c)
             ELSE [m |-> [m1 EXCEPT !.pc = "start"], c |-> a.c]

\* run() from the head of its while loop to its next await: session_factory(),
\* attach_audio_session(session), then await session.start(...)
iterate(m, c, fo) ==
    IF ~m.running THEN [m |-> Leave(m, "stopped"), c |-> c]
    ELSE IF fo = "raise" THEN handle_crash(m, c)
    ELSE LET m1 == [m EXCEPT !.made = @ + 1, !.session = m.made + 1]
             a == attach_audio_session(c, m1.session)
         IN  IF a.raised THEN handle_crash(m1, a.c)
             ELSE [m |-> [m1 EXCEPT !.pc = "start"], c |-> a.c]

\* mutation of stop_reconnect_tasks: stop() cancels the monitoring task only
stop_reconnect_tasks_skip(rt) == rt

\* ProviderSupervisor.stop: every task of _reconnect_tasks is cancelled
stop_reconnect_tasks(rt) == [n \in DOMAIN rt |-> Cancel(rt[n])]

\* session_factory of agent.py: a fresh STT proxy and a fresh TTS proxy, each of
\* which registers itself with the supervisor
session_factory(s, px) ==
    LET px1 == Put(px, "stt", NewProxy(FreshClient(Del(px, "stt"), "stt")))
        px2 == Put(px1, "tts", NewProxy(FreshClient(Del(px1, "tts"), "tts")))
        s2 == register_provider(register_provider(s, "stt"), "tts")
    IN  [px |-> px2,
         s |-> [s2 EXCEPT !.rt = [n \in DOMAIN s2.rt |->
                                     UnhookTask(UnhookTask(s2.rt[n], "stt"), "tts")],
                          !.orph = UnhookBag(UnhookBag(s2.orph, "stt"), "tts")]]

\* one step of run(), r its result, built tells whether the factory returned a
\* session; when run() is left, entrypoint's finally runs supervisor.stop()
ManagerStep(r, built) ==
    LET f == IF built THEN session_factory(Sup, providers) ELSE [px |-> providers, s |-> Sup]
        left == r.m.pc = "done"
    IN  /\ Len(r.m.sleeps) <= MaxRestarts
        /\ mgr' = r.m
        /\ conv' = r.c
        /\ providers' = f.px
        /\ health_map' = f.s.hm
        /\ orphans' = f.s.orph
        /\ reconnect_tasks' = IF left THEN stop_reconnect_tasks(f.s.rt) ELSE f.s.rt
        /\ running' = IF left THEN FALSE ELSE running
        /\ monitoring_task' = IF left /\ monitoring_task # "done" THEN "cancelling"
                               ELSE monitoring_task
        /\ notifications' = <<>>
        /\ UNCHANGED <<listeners, streams, ui, ret, runtimeVars, chaosVars>>

\* await audio_manager.run(), agent.py:236, up to the first await of run()
ManagerRun(fo) ==
    /\ Started
    /\ running
    /\ conv.exists
    /\ mgr.pc = "idle"
    /\ ManagerStep(iterate([mgr EXCEPT !.running = TRUE], Quiet(conv), fo),
                   fo = "session")

\* session.start() returns: the session ended gracefully, break
StartReturns ==
    /\ mgr.pc = "start"
    /\ ~mgr.cancel
    /\ ManagerStep([m |-> Leave(mgr, "graceful"), c |-> Quiet(conv)], FALSE)

\* session.start() raises: the except Exception block up to its sleep
StartRaises ==
    /\ mgr.pc = "start"
    /\ ~mgr.cancel
    /\ ManagerStep(handle_crash([mgr EXCEPT !.crashed = @ \cup {mgr.session}], Quiet(conv)),
                   FALSE)

\* the sleep is over: the delay grows and the loop goes round
Wake(fo) ==
    /\ mgr.pc = "sleep"
    /\ ~mgr.cancel
    /\ ManagerStep(iterate([mgr EXCEPT !.reconnect_delay = next_delay(@)], Quiet(conv), fo),
                   mgr.running /\ fo = "session")

\* the job's task is cancelled while run() is suspended
CancelManager ==
    /\ mgr.pc \in {"start", "sleep"}
    /\ ~mgr.cancel
    /\ mgr' = [mgr EXCEPT !.cancel = TRUE]
    /\ conv' = Quiet(conv)
    /\ notifications' = <<>>
    /\ UNCHANGED <<health_map, providers, reconnect_tasks, orphans, running,
                   monitoring_task, listeners, streams, ui, ret, runtimeVars, chaosVars>>

\* run() is resumed with CancelledError: inside session.start() it is caught and the
\* loop is left by break, inside the handler's sleep it leaves run() as an exception
ManagerCancelled ==
    /\ mgr.pc \in {"start", "sleep"}
    /\ mgr.cancel
    /\ ManagerStep([m |-> Leave(mgr, IF mgr.pc = "start" THEN "cancelled" ELSE "cancelled-raised"),
                    c |-> Quiet(conv)], FALSE)

\* AudioSessionManager.stop()
ManagerStop ==
    /\ mgr.pc \in {"start", "sleep"}
    /\ mgr.running
    /\ mgr' = [mgr EXCEPT !.running = FALSE]
    /\ conv' = Quiet(conv)
    /\ notifications' = <<>>
    /\ UNCHANGED <<health_map, providers, reconnect_tasks, orphans, running,
                   monitoring_task, listeners, streams, ui, ret, runtimeVars, chaosVars>>

\* ------------------------------------------------------------------ specifications
\* Spec: the supervisor and its background tasks, both providers, no listeners
Next ==
    \/ Start /\ UNCHANGED <<sessionVars, runtimeVars, chaosVars>>
    \/ Stop /\ UNCHANGED <<sessionVars, runtimeVars, chaosVars>>
    \/ \E n \in Names : RegisterProvider(n) /\ UNCHANGED <<sessionVars, runtimeVars, chaosVars>>
    \/ \E n \in Names : MarkFailed(n) /\ UNCHANGED <<sessionVars, runtimeVars, chaosVars>>
    \/ \E n \in Names : MarkHealthy(n) /\ UNCHANGED <<sessionVars, runtimeVars, chaosVars>>
    \/ MonitorStep /\ UNCHANGED <<sessionVars, runtimeVars, chaosVars>>
    \/ \E loc \in {"dict", "orphan"}, n \in Names, o \in AttemptOutcomes : ReconnectStep(loc, n, o) /\ UNCHANGED <<sessionVars, runtimeVars, chaosVars>>

Spec == Init /\ [][Next]_vars

\* ListenerSpec: the same with listeners of every kind; to keep the state space
\* in reach only the STT proxy registers
ListenerNames == {"stt"}

ListenerNext ==
    \/ Start /\ UNCHANGED <<sessionVars, runtimeVars, chaosVars>>
    \/ Stop /\ UNCHANGED <<sessionVars, runtimeVars, chaosVars>>
    \/ \E k \in ListenerKinds : AddListener(k) /\ UNCHANGED <<sessionVars, runtimeVars, chaosVars>>
    \/ \E n \in ListenerNames : RegisterProvider(n) /\ UNCHANGED <<sessionVars, runtimeVars, chaosVars>>
    \/ \E n \in ListenerNames : MarkFailed(n) /\ UNCHANGED <<sessionVars, runtimeVars, chaosVars>>
    \/ \E n \in ListenerNames : MarkHealthy(n) /\ UNCHANGED <<sessionVars, runtimeVars, chaosVars>>
    \/ MonitorStep /\ UNCHANGED <<sessionVars, runtimeVars, chaosVars>>
    \/ \E loc \in {"dict", "orphan"}, n \in ListenerNames, o \in AttemptOutcomes : ReconnectStep(loc, n, o) /\ UNCHANGED <<sessionVars, runtimeVars, chaosVars>>

ListenerSpec == Init /\ [][ListenerNext]_vars

\* ProxySpec: the proxy of one audio session with its callers, hot swaps and
\* reconnect tasks; a run has the STT proxy or the TTS proxy, since the two share
\* no state but the supervisor's per-name entries
StreamRecords ==
    [name : Names, client : {0} \cup ClientIds,
     kind : {"SpeechStream", "ChunkedStream", "SynthesizeStream", "EmptyTranscriptStream",
             "SilentChunkedStream", "SilentSynthesizeStream"}]

ProxyNext ==
    \/ Start /\ UNCHANGED <<sessionVars, runtimeVars, chaosVars>>
    \/ \E n \in Names : providers = EmptyMap /\ RegisterProvider(n) /\ UNCHANGED <<sessionVars, runtimeVars, chaosVars>>
    \/ \E n \in Names : \E m \in Methods(n), o \in CallOutcomes : ProxyCall(n, m, o) /\ UNCHANGED <<sessionVars, runtimeVars, chaosVars>>
    \/ \E n \in Names : ReplaceProvider(n) /\ UNCHANGED <<sessionVars, runtimeVars, chaosVars>>
    \/ \E n \in Names, f \in FactoryOutcomes : AttemptReconnect(n, f)
    \/ \E st \in StreamRecords : StreamComplete(st) /\ UNCHANGED <<sessionVars, runtimeVars, chaosVars>>
    \/ \E loc \in {"dict", "orphan"}, n \in Names, o \in AttemptOutcomes : ReconnectStep(loc, n, o) /\ UNCHANGED <<sessionVars, runtimeVars, chaosVars>>

ProxySpec == Init /\ [][ProxyNext]_vars

\* a reconnect attempt of provider n coming back with True
AttemptSucceeds(n) ==
    /\ n \in DOMAIN reconnect_tasks
    /\ reconnect_tasks[n].pc = "attempt"
    /\ ReconnectStep("dict", n, "ok")

\* LiveSpec: the supervisor with one provider and no listeners, under the
\* scheduling of the event loop: a task that can run does run (its sleep ends, its
\* awaited call returns), and the hypothesis of the recovery claim, that
\* attempt_reconnect eventually returns True
LiveNames == {"stt"}

LiveNext ==
    \/ Start /\ UNCHANGED <<sessionVars, runtimeVars, chaosVars>>
    \/ Stop /\ UNCHANGED <<sessionVars, runtimeVars, chaosVars>>
    \/ \E n \in LiveNames : RegisterProvider(n) /\ UNCHANGED <<sessionVars, runtimeVars, chaosVars>>
    \/ \E n \in LiveNames : MarkFailed(n) /\ UNCHANGED <<sessionVars, runtimeVars, chaosVars>>
    \/ \E n \in LiveNames : MarkHealthy(n) /\ UNCHANGED <<sessionVars, runtimeVars, chaosVars>>
    \/ MonitorStep /\ UNCHANGED <<sessionVars, runtimeVars, chaosVars>>
    \/ \E loc \in {"dict", "orphan"}, n \in LiveNames, o \in AttemptOutcomes : ReconnectStep(loc, n, o) /\ UNCHANGED <<sessionVars, runtimeVars, chaosVars>>

LiveSpec ==
    /\ Init
    /\ [][LiveNext]_vars
    /\ \A n \in LiveNames :
          /\ WF_vars((\E o \in AttemptOutcomes : ReconnectStep("dict", n, o))
                         /\ UNCHANGED <<sessionVars, runtimeVars, chaosVars>>)
          /\ SF_vars(AttemptSucceeds(n) /\ UNCHANGED <<sessionVars, runtimeVars, chaosVars>>)

\* the audio session manager of one job (agent.py entrypoint) with its conversation
SessionNext ==
    \/ Start /\ UNCHANGED <<sessionVars, runtimeVars, chaosVars>>
    \/ ConstructConversation
    \/ \E x \in {0, CallerSession} : RegisterOrchestrator(x)
    \/ \E fo \in FactoryResults : ManagerRun(fo)
    \/ StartReturns
    \/ StartRaises
    \/ \E fo \in FactoryResults : Wake(fo)
    \/ CancelManager
    \/ ManagerCancelled
    \/ ManagerStop

SessionSpec == Init /\ [][SessionNext]_vars

\* the crashes a run with provider failures goes through
MaxCrashes == 2

\* the job with provider failures: the STT proxy of the running session reports them,
\* the supervisor's tasks reconnect, the conversation listens
JobNames == {"stt"}

JobNext ==
    \/ Start /\ UNCHANGED <<sessionVars, runtimeVars, chaosVars>>
    \/ ConstructConversation
    \/ \E x \in {0, CallerSession} : RegisterOrchestrator(x)
    \/ \E fo \in FactoryResults : ManagerRun(fo)
    \/ StartReturns
    \/ StartRaises /\ Len(mgr'.sleeps) <= MaxCrashes
    \/ \E fo \in FactoryResults : Wake(fo) /\ Len(mgr'.sleeps) <= MaxCrashes
    \/ CancelManager
    \/ ManagerCancelled
    \/ \E n \in JobNames : WithConversation(mgr.pc = "start" /\ MarkFailed(n))
    \/ WithConversation(MonitorStep)
    \/ \E loc \in {"dict", "orphan"}, n \in JobNames, o \in AttemptOutcomes :
           WithConversation(ReconnectStep(loc, n, o))

JobSpec == Init /\ [][JobNext]_vars

\* the conversation listening to the supervisor: both voice-path providers fail and
\* recover, by mark_healthy or by their reconnect tasks; as in entrypoint, the proxies
\* are built (by session_factory, inside run()) after the orchestrator is registered
ConvNext ==
    \/ Start /\ UNCHANGED <<sessionVars, runtimeVars, chaosVars>>
    \/ ConstructConversation
    \/ \E x \in {0, CallerSession} : RegisterOrchestrator(x)
    \/ \E n \in Names : WithConversation(conv.orchestrator # "none" /\ RegisterProvider(n))
    \/ \E n \in Names : WithConversation(MarkFailed(n))
    \/ \E n \in Names : WithConversation(MarkHealthy(n))
    \/ \E loc \in {"dict", "orphan"}, n \in Names, o \in AttemptOutcomes :
           WithConversation(ReconnectStep(loc, n, o))

ConvSpec == Init /\ [][ConvNext]_vars

\* the conversation's own interface, called directly
ApiNext ==
    \/ Start /\ UNCHANGED <<sessionVars, runtimeVars, chaosVars>>
    \/ ConstructConversation
    \/ \E x \in {0, CallerSession} : RegisterOrchestrator(x)
    \/ \E s \in 1..MaxAttach : AttachAudioSession(s)
    \/ DetachAudioSession

ApiSpec == Init /\ [][ApiNext]_vars

\* the execution gate asked about every tool name and role
GateNext == \E t \in ToolNames, r \in UserRoles : CheckAccess(t, r)

GateSpec == Init /\ [][GateNext]_vars

\* the turns of the orchestrator; the event loop runs every task it holds
TurnNext ==
    \/ \E f \in BOOLEAN, p \in Participants : TranscriptionReceived(f, p)
    \/ \E o \in PublishOutcomes : PublishStep(o)

TurnSpec == Init /\ [][TurnNext]_vars /\ WF_vars(\E o \in PublishOutcomes : PublishStep(o))



\* ------------------------------------------------------------------ governed tool executor
\* the executor calls of one run
MaxCalls == 1

\* RiskLevel.name and UserRole.name, by value
RiskName == [r \in READ_ONLY..CRITICAL |->
                CASE r = READ_ONLY -> "READ_ONLY" [] r = LOW -> "LOW" [] r = MEDIUM -> "MEDIUM"
                  [] r = HIGH -> "HIGH" [] OTHER -> "CRITICAL"]

RoleName == [r \in UserRoles |->
                CASE r = GUEST -> "GUEST" [] r = USER -> "USER" [] r = TRUSTED -> "TRUSTED"
                  [] OTHER -> "ADMIN"]

\* ExecutionGate.get_denial_reason; a text is the sequence of its pieces
get_denial_reason(tool_name, user_role) ==
    <<"Permission Denied: '", tool_name, "' is classified as ",
      RiskName[get_risk(tool_name)], " risk. Your role (", RoleName[user_role],
      ") only allows up to ", RiskName[max_risk(user_role)], " risk.">>

\* uuid.uuid4() in AuditLogger.log_attempt: an id no earlier attempt has
NewTraceId(log) == 1 + Cardinality({i \in DOMAIN log : log[i].event = "execution_attempt"})

\* AuditLogger.log_attempt
log_attempt(log, trace_id, tool_name, user_role) ==
    Append(log, [event |-> "execution_attempt", trace_id |-> trace_id,
                 tool |-> tool_name, role |-> RoleName[user_role]])

\* AuditLogger.log_block
log_block(log, trace_id, tool_name, reason) ==
    Append(log, [event |-> "execution_blocked", trace_id |-> trace_id,
                 tool |-> tool_name, reason |-> reason])

\* AuditLogger.log_result
log_result(log, trace_id, tool_name, result, success) ==
    Append(log, [event |-> "execution_result", trace_id |-> trace_id,
                 tool |-> tool_name, success |-> success, result |-> result])

\* what one call of the executor meets: the caller's arguments, the chaos draw, the
\* tool map and the tool's own behaviour
ExecTools == {"get_time", "search_web", "list_notes", "SEND_EMAIL", "shutdown", ""}

ChaosDraws == {"off", "spared", "fires"}

Lookups == {"tool", "skill", "absent", "not_callable"}

ToolOutcomes == {"returns", "raises", "cancelled"}

\* (what a call never gets to look at is left at its first value)
Calls ==
    {c \in [name : ExecTools, params_is_dict : BOOLEAN, user_role : UserRoles,
            chaos : ChaosDraws, lookup : Lookups, outcome : ToolOutcomes] :
        /\ (c.name = "" \/ ~c.params_is_dict \/ c.chaos = "fires"
                \/ ~check_access(c.name, c.user_role)) => c.lookup = "tool"
        /\ c.lookup \notin {"tool", "skill"} => c.outcome = "returns"
        /\ (c.name = "" \/ ~c.params_is_dict) => c.chaos = "off"
        /\ (c.name = "" \/ ~c.params_is_dict \/ c.chaos = "fires"
                \/ ~check_access(c.name, c.user_role)) => c.outcome = "returns"}

\* what the tool hands back, and the text of the exception it raises
ToolResult(name) == <<"result of ", lower(name)>>

ToolError == <<"boom">>

\* the executor handed out an outcome: text returned or exception raised, whether the
\* tool's function ran, the trace id it logged under (0: none)
Outcome(log, result, raised, invoked, trace_id) ==
    [log |-> log, result |-> result, raised |-> raised, invoked |-> invoked,
     trace_id |-> trace_id]

\* mutation of governed_executor: the gate is asked but its answer is not used
governed_executor_open(log, call) ==
    LET trace_id == NewTraceId(log)
        attempted == log_attempt(log, trace_id, call.name, call.user_role)
    IN  IF call.lookup \in {"absent", "not_callable"}
        THEN Outcome(attempted, <<"Tool ", call.name, " not found.">>, "none", FALSE, trace_id)
        ELSE Outcome(log_result(attempted, trace_id, call.name, ToolResult(call.name), TRUE),
                     ToolResult(call.name), "none", TRUE, trace_id)

\* tool_executor of ToolManager.initialize_agent_with_mcp, below its decorator
governed_executor(log, call) ==
    IF call.chaos = "fires"
    THEN Outcome(log, <<"Error: Tool ", call.name, " failed (Simulated Chaos)">>,
                 "none", FALSE, 0)
    ELSE
    LET trace_id == NewTraceId(log)
        attempted == log_attempt(log, trace_id, call.name, call.user_role)
    IN  IF ~check_access(call.name, call.user_role)
        THEN LET reason == get_denial_reason(call.name, call.user_role)
             IN  Outcome(log_block(attempted, trace_id, call.name, reason),
                         <<"⛔ ">> \o reason, "none", FALSE, trace_id)
        ELSE IF call.lookup = "absent"
        THEN Outcome(attempted, <<"Tool ", call.name, " not found.">>, "none", FALSE, trace_id)
        ELSE IF call.lookup = "not_callable"
        THEN Outcome(attempted, <<"Tool ", call.name, " is not callable">>, "none", FALSE,
                     trace_id)
        ELSE IF call.outcome = "returns"
        THEN Outcome(log_result(attempted, trace_id, call.name, ToolResult(call.name), TRUE),
                     ToolResult(call.name), "none", TRUE, trace_id)
        ELSE IF call.outcome = "raises"
        THEN Outcome(log_result(attempted, trace_id, call.name, ToolError, FALSE),
                     <<"Error: ">> \o ToolError, "none", TRUE, trace_id)
        ELSE Outcome(attempted, <<>>, "CancelledError", TRUE, trace_id)

\* probe_tool_execution around the executor
tool_executor(log, call) ==
    IF call.name = "" \/ ~call.params_is_dict
    THEN Outcome(log, <<>>, "ToolExecutionError", FALSE, 0)
    ELSE governed_executor(log, call)

\* the audit records of one trace id, in the order they were written
RecordsOf(log, trace_id) == SelectSeq(log, LAMBDA r : r.trace_id = trace_id)

\* a caller awaits the executor
ToolExecutor(call) ==
    /\ NewTraceId(audit) <= MaxCalls
    /\ \E out \in {tool_executor(audit, call)} :
           /\ audit' = out.log
           /\ ret' = [op |-> "tool_executor", arg |-> <<call.name, call.user_role>>,
                      value |-> [result |-> out.result, raised |-> out.raised,
                                 invoked |-> out.invoked, trace_id |-> out.trace_id,
                                 chaos_fired |-> out.raised = "none" /\ call.chaos = "fires",
                                 tool_raised |-> out.invoked /\ call.outcome = "raises"]]
    /\ UNCHANGED <<supVars, conv, mgr, ui, probe, monitor, guard, chaosVars>>

ExecNext == \E call \in Calls : ToolExecutor(call)

ExecSpec == Init /\ [][ExecNext]_vars

\* ------------------------------------------------------------------ ExecutionRouter, Assistant.llm_node
\* Optional[str] None
NoText == <<>>

\* what Then makes of the value of one await
Await(Then(_), awaited) == CHOOSE made \in {Then(value) : value \in {awaited}} : TRUE

\* str(x) in an f-string
Str(x) == IF x = NoText THEN <<"None">> ELSE x

\* RouteResult
RouteResult(handled, response, tool_executed, intent_type, needs_llm, error) ==
    [handled |-> handled, response |-> response, tool_executed |-> tool_executed,
     intent_type |-> intent_type, needs_llm |-> needs_llm, error |-> error]

FriendlyMsg == <<"I encountered a problem while trying to perform that action.">>

\* the text of the exception the executor raises has neither "missing" nor "argument"
ValidationError == <<"Tool params must be dict, got ", "type">>

\* what route() hands back to llm_node: a RouteResult, or the exception leaving it
Routed(log, route) == [log |-> log, route |-> route, raised |-> "none"]

Unrouted(log, error) ==
    [log |-> log, route |-> RouteResult(FALSE, NoText, "", "none", FALSE, NoText),
     raised |-> error]

\* ExecutionRouter._handle_tool_action
handle_tool_action(log, turn) ==
    LET tool == turn.call.name
    IN  IF tool = ""
        THEN Routed(log, RouteResult(FALSE, NoText, "", "tool_action", TRUE,
                                     <<"Could not determine which tool to use">>))
        ELSE IF ~turn.registered
        THEN Routed(log, RouteResult(FALSE, NoText, "", "tool_action", TRUE,
                                     <<"Tool not available">>))
        ELSE IF turn.missing_params
        THEN Routed(log, RouteResult(TRUE, <<"I need a bit more info. What's the ",
                                             "param", "?">>,
                                     "", "tool_action", FALSE, NoText))
        ELSE IF turn.has_executor
        THEN LET Executed(out) ==
                    IF out.raised = "none"
                    THEN Routed(out.log, RouteResult(TRUE, out.result, tool, "tool_action",
                                                     TRUE, NoText))
                    ELSE IF out.raised = "CancelledError"
                    THEN Unrouted(out.log, out.raised)
                    ELSE Routed(out.log, RouteResult(TRUE, FriendlyMsg, "", "tool_action",
                                                     FALSE, ValidationError))
             IN  Await(Executed, tool_executor(log, turn.call))
        ELSE Routed(log, RouteResult(FALSE, NoText, tool, "tool_action", TRUE, NoText))

\* ExecutionRouter._handle_memory_query
handle_memory_query(turn) ==
    IF turn.memory = "none"
    THEN RouteResult(FALSE, NoText, "", "memory_query", TRUE, NoText)
    ELSE IF turn.memory = "name"
    THEN RouteResult(TRUE, <<"Your name is ", "name", ".">>, "", "memory_query", FALSE, NoText)
    ELSE RouteResult(FALSE, NoText, "", "memory_query", TRUE, NoText)

\* ExecutionRouter._handle_clarification
handle_clarification(turn) ==
    RouteResult(TRUE, <<"clarification template">>, "", "clarification", FALSE, NoText)

\* ExecutionRouter._handle_conversation
handle_conversation(turn) ==
    RouteResult(FALSE, NoText, "", "conversation", TRUE, NoText)

\* ExecutionRouter.route
route(log, turn) ==
    IF turn.knowledge = "raises"
    THEN Unrouted(log, "Exception")
    ELSE IF turn.intent_type = "tool_action"
    THEN LET Grounded(result) ==
                    IF result.raised = "none" /\ turn.knowledge = "found"
                    THEN [result EXCEPT !.route.response =
                               Str(@) \o <<"\n\n[Background Knowledge]:\n", "knowledge">>]
                    ELSE result
         IN  Await(Grounded, handle_tool_action(log, turn))
    ELSE IF turn.intent_type = "memory_query"
    THEN LET result == handle_memory_query(turn)
         IN  IF ~result.handled /\ turn.knowledge = "found"
             THEN Routed(log, RouteResult(TRUE, <<"Based on what I know:\n", "knowledge">>,
                                          "", "memory_query", TRUE, NoText))
             ELSE Routed(log, result)
    ELSE IF turn.intent_type = "clarification"
    THEN Routed(log, handle_clarification(turn))
    ELSE IF turn.knowledge = "found"
    THEN Routed(log, RouteResult(TRUE, <<"Here is some information I found:\n", "knowledge">>,
                                 "", "conversation", TRUE, NoText))
    ELSE Routed(log, handle_conversation(turn))

\* what llm_node did with the turn: what it returned without the LLM, whether it went
\* on to the LLM, the system message it added to the chat context before that
Turned(routed, result, returned, llm_invoked, added, raised) ==
    [log |-> result.log, routed |-> routed, route |-> result.route, returned |-> returned,
     llm_invoked |-> llm_invoked, added |-> added, raised |-> raised]

\* mutation of llm_node: whatever the router handled is returned as it is
llm_node_handled(log, turn) ==
    IF turn.text = "no user message"
    THEN Turned(FALSE, Unrouted(log, "none"), NoText, TRUE, NoText, "none")
    ELSE IF turn.text = "switch to direct mode"
    THEN Turned(FALSE, Unrouted(log, "none"), <<"I have switched to Direct Mode.">>, FALSE,
                NoText, "none")
    ELSE IF turn.text = "switch to safe mode"
    THEN Turned(FALSE, Unrouted(log, "none"), <<"I have switched back to Safe Mode.">>,
                FALSE, NoText, "none")
    ELSE
    LET Reply(result) ==
            IF result.raised = "CancelledError"
            THEN Turned(FALSE, result, NoText, FALSE, NoText, result.raised)
            ELSE IF result.raised # "none"
            THEN Turned(FALSE, result, NoText, TRUE, NoText, "none")
            ELSE IF result.route.handled
            THEN Turned(TRUE, result, result.route.response, FALSE, NoText, "none")
            ELSE Turned(TRUE, result, NoText, TRUE, NoText, "none")
    IN  Await(Reply, route(log, turn))

\* Assistant.llm_node for a ChatMessage
llm_node(log, turn) ==
    IF turn.text = "no user message"
    THEN Turned(FALSE, Unrouted(log, "none"), NoText, TRUE, NoText, "none")
    ELSE IF turn.text = "switch to direct mode"
    THEN Turned(FALSE, Unrouted(log, "none"), <<"I have switched to Direct Mode.">>, FALSE,
                NoText, "none")
    ELSE IF turn.text = "switch to safe mode"
    THEN Turned(FALSE, Unrouted(log, "none"), <<"I have switched back to Safe Mode.">>,
                FALSE, NoText, "none")
    ELSE
    LET Reply(result) ==
            IF result.raised = "CancelledError"
            THEN Turned(FALSE, result, NoText, FALSE, NoText, result.raised)
            ELSE IF result.raised # "none"
            THEN Turned(FALSE, result, NoText, TRUE, NoText, "none")
            ELSE IF result.route.handled /\ ~result.route.needs_llm
            THEN Turned(TRUE, result, result.route.response, FALSE, NoText, "none")
            ELSE IF result.route.handled /\ result.route.needs_llm
            THEN Turned(TRUE, result, NoText, TRUE,
                        <<"Tool Result: ">> \o Str(result.route.response)
                            \o <<". Phrase this naturally.">>,
                        "none")
            ELSE Turned(TRUE, result, NoText, TRUE, NoText, "none")
    IN  Await(Reply, route(log, turn))

\* the turns of a user: the last user message, what the classifier, the registry, the
\* RAG engine and the memory context make of it, and what the executor meets
UserTexts == {"plain", "no user message", "switch to direct mode", "switch to safe mode"}

IntentTypes == {"tool_action", "conversation", "memory_query", "clarification"}

PlainCall ==
    [name |-> "get_time", params_is_dict |-> TRUE, user_role |-> GUEST, chaos |-> "off",
     lookup |-> "tool", outcome |-> "returns"]

\* the executor calls the router makes for the Assistant of one user
RoutedCalls ==
    {c \in Calls : c.name \in {"get_time", "list_notes", "SEND_EMAIL", ""}
                     /\ c.user_role \in {GUEST, USER, TRUSTED}}

Turn(text, intent_type, registered, missing_params, has_executor, knowledge, memory, call) ==
    [text |-> text, intent_type |-> intent_type, registered |-> registered,
     missing_params |-> missing_params, has_executor |-> has_executor,
     knowledge |-> knowledge, memory |-> memory, call |-> call]

\* (what a turn never gets to look at is left at its first value)
Turns ==
    {Turn(text, "conversation", TRUE, FALSE, TRUE, "none", "none", PlainCall) :
        text \in UserTexts \ {"plain"}}
    \cup {Turn("plain", "conversation", TRUE, FALSE, TRUE, k, "none", PlainCall) :
            k \in {"none", "found", "raises"}}
    \cup {Turn("plain", "clarification", TRUE, FALSE, TRUE, k, "none", PlainCall) :
            k \in {"none", "found"}}
    \cup {Turn("plain", "memory_query", TRUE, FALSE, TRUE, k, m, PlainCall) :
            k \in {"none", "found"}, m \in {"none", "name", "other"}}
    \cup {Turn("plain", "tool_action", TRUE, FALSE, TRUE, k, "none", c) :
            k \in {"none", "found"}, c \in {c \in RoutedCalls : c.name # ""}}
    \cup {Turn("plain", "tool_action", TRUE, FALSE, TRUE, k, "none",
               [PlainCall EXCEPT !.name = ""]) : k \in {"none", "found"}}
    \cup {Turn("plain", "tool_action", w[1], w[2], w[3], k, "none",
               [PlainCall EXCEPT !.name = "SEND_EMAIL"]) :
            k \in {"none", "found"},
            w \in {<<FALSE, FALSE, TRUE>>, <<TRUE, TRUE, TRUE>>, <<TRUE, FALSE, FALSE>>}}

\* the agent session asks the Assistant for the reply to a ChatMessage
LlmNode(turn) ==
    /\ NewTraceId(audit) <= MaxCalls
    /\ \E out \in {llm_node(audit, turn)} :
       LET ran == turn.text = "plain" /\ turn.intent_type = "tool_action"
                    /\ Len(out.log) > Len(audit)
       IN  /\ audit' = out.log
           /\ ret' = [op |-> "llm_node", arg |-> <<turn.call.name, turn.call.user_role>>,
                      value |-> [routed |-> out.routed, route |-> out.route,
                                 returned |-> out.returned,
                                 llm_invoked |-> out.llm_invoked, added |-> out.added,
                                 raised |-> out.raised,
                                 trace_id |-> IF ran THEN NewTraceId(audit) ELSE 0,
                                 tool_raised |->
                                     /\ ran
                                     /\ check_access(turn.call.name, turn.call.user_role)
                                     /\ turn.call.lookup \in {"tool", "skill"}
                                     /\ turn.call.outcome = "raises"]]
    /\ UNCHANGED <<supVars, conv, mgr, ui, probe, monitor, guard, chaosVars>>

RouteNext == \E turn \in Turns : LlmNode(turn)

RouteSpec == Init /\ [][RouteNext]_vars

\* ------------------------------------------------------------------ StreamProbe
\* the chunks one stream emits
MaxChunks == 4

\* the streams a probe wraps, by what getattr(stream, 'aclose', getattr(stream, 'close',
\* None)) finds: an async def aclose, a plain def close, nothing
StreamKinds == {"async aclose", "plain close", "no close"}

\* what the stream does when asked for its next chunk: a chunk in time, nothing within
\* timeout_seconds (a chunk later, or never), the end, an exception
StreamEvents == {"chunk", "late", "ends", "raises"}

\* the close attempt of __anext__: asyncio.iscoroutinefunction(close_method) is true
\* of an async def only; for anything else asyncio.isiter is looked up, which asyncio
\* does not have, and the bare except swallows the AttributeError
try_close(p) ==
    IF p.stream = "async aclose" THEN [p EXCEPT !.closed = TRUE] ELSE p

\* StreamProbe.__anext__
anext(p, event) ==
    LET q == [p EXCEPT !.events = Append(@, event)]
    IN  IF event = "chunk" \/ (event = "late" /\ p.first_chunk_received)
        THEN [q EXCEPT !.first_chunk_received = TRUE, !.chunk_count = @ + 1,
                       !.got = "chunk"]
        ELSE IF event = "late"
        THEN [try_close(q) EXCEPT !.got = "StreamError", !.error = "Stream timeout"]
        ELSE IF event = "ends"
        THEN IF p.chunk_count = 0
             THEN [q EXCEPT !.got = "StreamError", !.error = "Stream ended"]
             ELSE [q EXCEPT !.got = "StopAsyncIteration"]
        ELSE [try_close(q) EXCEPT !.got = "StreamError", !.error = "Stream error"]

\* StreamProbe(stream)
MakeProbe(kind) ==
    /\ ~probe.made
    /\ probe' = [NewProbe EXCEPT !.made = TRUE, !.stream = kind]
    /\ UNCHANGED <<supVars, sessionVars, audit, monitor, guard, chaosVars>>

\* the consumer's "async for" asks for the next chunk
Anext(event) ==
    /\ probe.made
    /\ probe.got \in {"none", "chunk"}
    /\ event \in {"chunk", "late"} => probe.chunk_count < MaxChunks
    /\ probe' = anext(probe, event)
    /\ UNCHANGED <<supVars, sessionVars, audit, monitor, guard, chaosVars>>

ProbeNext ==
    \/ \E kind \in StreamKinds : MakeProbe(kind)
    \/ \E event \in StreamEvents : Anext(event)

ProbeSpec == Init /\ [][ProbeNext]_vars

\* ------------------------------------------------------------------ SmartLLMStream._run, SessionMonitor
\* the chat calls of one run
MaxRuns == 2

\* SessionMonitor.start_request
start_request(m) == [m EXCEPT !.current_metrics = NewRequestMetrics]

\* SessionMonitor.record_metric
record_metric(m, metric_name, value, increment) ==
    IF metric_name \in DOMAIN m.current_metrics
    THEN [m EXCEPT !.current_metrics[metric_name] = IF increment THEN @ + value ELSE value]
    ELSE m

\* SessionMonitor.end_request
end_request(m) == [m EXCEPT !.metrics_history = Append(@, m.current_metrics)]

\* what keeps _run from reaching the stream: the chaos faults (429, 500) and
\* base_llm.chat raising
Faults == {"429", "500", "chat raises"}

\* mutation of run_failed: the failed request is not closed
run_failed_open(m, cause) ==
    [record_metric(m, "probe_failures", 1, FALSE)
        EXCEPT !.pc = "idle", !.met = cause, !.raised = "Exception", !.runs = @ + 1]

\* the except branch of _run
run_failed(m, cause) ==
    [end_request(record_metric(m, "probe_failures", 1, FALSE))
        EXCEPT !.pc = "idle", !.met = cause, !.raised = "Exception", !.runs = @ + 1]

\* the end of _run after the last chunk
run_completed(m) ==
    LET timed == record_metric(m, "llm_latency", "set", FALSE)
        counted == IF timed.current_metrics.tokens_out = 0
                   THEN record_metric(timed, "tokens_out", m.tokens_out, FALSE)
                   ELSE timed
    IN  [end_request(counted)
            EXCEPT !.pc = "idle", !.met = "completes", !.raised = "none", !.runs = @ + 1]

\* _run up to the stream: telemetry, context, tools, chaos, base_llm.chat, StreamProbe
RunStart(fault) ==
    /\ monitor.pc = "idle"
    /\ monitor.runs < MaxRuns
    /\ LET started == [start_request(monitor) EXCEPT !.tokens_out = 0]
       IN  IF fault = "none"
           THEN /\ monitor' = [started EXCEPT !.pc = "streaming", !.met = "none",
                                              !.raised = "none"]
                /\ probe' = [NewProbe EXCEPT !.made = TRUE, !.stream = "async aclose"]
           ELSE /\ monitor' = run_failed(started, fault)
                /\ UNCHANGED probe
    /\ UNCHANGED <<supVars, sessionVars, audit, guard, chaosVars>>

\* one round of "async for chunk in probed_stream"
RunChunk(event) ==
    /\ monitor.pc = "streaming"
    /\ event \in {"chunk", "late"} => probe.chunk_count < MaxChunks
    /\ probe' = anext(probe, event)
    /\ monitor' =
          IF probe'.got = "chunk"
          THEN [(IF probe.first_chunk_received THEN monitor
                 ELSE record_metric(monitor, "stream_first_chunk_latency", "set", FALSE))
                   EXCEPT !.tokens_out = @ + 1]
          ELSE IF probe'.got = "StopAsyncIteration"
          THEN run_completed(monitor)
          ELSE run_failed(monitor, probe'.error)
    /\ UNCHANGED <<supVars, sessionVars, audit, guard, chaosVars>>

\* the task of _run is cancelled while it waits for a chunk
RunCancel ==
    /\ monitor.pc = "streaming"
    /\ monitor' = [monitor EXCEPT !.pc = "idle", !.met = "cancelled",
                                  !.raised = "CancelledError", !.runs = @ + 1]
    /\ UNCHANGED <<supVars, sessionVars, audit, probe, guard, chaosVars>>

LlmNext ==
    \/ \E fault \in Faults \cup {"none"} : RunStart(fault)
    \/ \E event \in StreamEvents : RunChunk(event)
    \/ RunCancel

LlmSpec == Init /\ [][LlmNext]_vars

\* ------------------------------------------------------------------ SmartLLMStream._run: context
\* the messages of an input chat context
MaxMessages == 4

Roles == {"system", "user", "assistant"}

\* the chat contexts handed to chat(): every message with its role, and its place in
\* the context for content
ChatContexts ==
    UNION {{[i \in 1..n |-> [role |-> r[i], content |-> i]] : r \in [1..n -> Roles]}
           : n \in 0..MaxMessages}

\* what context_builder(user_msg) answers: a (system_prompt, tools) tuple, something
\* else, an exception
BuilderAnswers == {"tuple", "other", "raises"}

\* step 2 of _run: the system prompt
system_prompt(answer) ==
    IF answer = "tuple" THEN "built prompt" ELSE "You are a helpful assistant."

\* mutation of new_ctx: the old system messages are copied too
new_ctx_all(chat_ctx, answer) ==
    <<[role |-> "system", content |-> <<system_prompt(answer)>>]>> \o chat_ctx

\* step 3 of _run: the message list of the context for the base LLM
new_ctx(chat_ctx, answer) ==
    <<[role |-> "system", content |-> <<system_prompt(answer)>>]>>
        \o SelectSeq(chat_ctx, LAMBDA msg : msg.role # "system")

\* chat() on a context, up to the ChatContext for the base LLM
BuildContext(chat_ctx, answer) ==
    /\ ret' = [op |-> "new_ctx", arg |-> <<chat_ctx, system_prompt(answer)>>,
               value |-> [new_ctx |-> new_ctx(chat_ctx, answer), chat_ctx |-> chat_ctx]]
    /\ UNCHANGED <<supVars, conv, mgr, ui, runtimeVars, chaosVars>>

CtxNext == \E chat_ctx \in ChatContexts, answer \in BuilderAnswers : BuildContext(chat_ctx, answer)

CtxSpec == Init /\ [][CtxNext]_vars

\* ------------------------------------------------------------------ SmartLLMStream._run: tools
\* the tools of one chat call
MaxLimitTools == 3

\* a tool, by its info.parameters: a dict (a raw schema, with the keys it has) or a
\* Pydantic model
ToolShapes ==
    {t \in [is_dict : BOOLEAN, type : {"object", "absent"}, properties : BOOLEAN] :
        ~t.is_dict => t.type = "object"}

LimitTools == UNION {[1..n -> ToolShapes] : n \in 0..MaxLimitTools}

\* step 3.5 of _run on one tool: the deep copy, with 'properties' added to a dict
fix_tool(tool) ==
    IF tool.is_dict /\ ~tool.properties THEN [tool EXCEPT !.properties = TRUE] ELSE tool

\* patched_build_strict / patched_build_legacy on the schema the builder of the
\* library made of the tool ('properties' added when it is not there)
patched_build(tool) == [type |-> tool.type, properties |-> TRUE]

\* chat() with tools, up to the schemas the base LLM presents
FixTools(limit_tools) ==
    /\ ret' = [op |-> "fixed_tools", arg |-> limit_tools,
               value |-> [fixed_tools |-> [i \in DOMAIN limit_tools |-> fix_tool(limit_tools[i])],
                          schemas |-> [i \in DOMAIN limit_tools |->
                                          patched_build(fix_tool(limit_tools[i]))],
                          limit_tools |-> limit_tools]]
    /\ UNCHANGED <<supVars, conv, mgr, ui, runtimeVars, chaosVars>>

ToolsNext == \E limit_tools \in LimitTools : FixTools(limit_tools)

ToolsSpec == Init /\ [][ToolsNext]_vars

\* ------------------------------------------------------------------ ChaosGuardrails
\* GuardrailLimits
max_tokens_per_session == 50000

max_retries_per_request == 5

max_session_duration_seconds == 300

max_consecutive_failures == 10

\* how far a run counts tokens, seconds, failures and retries
MaxTokens == 60000

MaxElapsed == 360

MaxRecorded == 11

MaxRetry == 6

\* the token counts of a request, and the seconds between two calls
TokenCounts == {0, 5000, 10000, 20000}

Pause == 60

\* a call's effect on the guardrails and what it returns
Checked(g, value) == [guard |-> g, value |-> value]

\* ChaosGuardrails.reset_session
reset_session(g) ==
    Checked([g EXCEPT !.elapsed = 0, !.total_tokens_used = 0, !.consecutive_failures = 0,
                      !.emergency_stop_triggered = FALSE], "None")

\* ChaosGuardrails.check_token_budget
check_token_budget(g, tokens_in, tokens_out) ==
    LET used == [g EXCEPT !.total_tokens_used = @ + (tokens_in + tokens_out)]
    IN  IF used.total_tokens_used >= max_tokens_per_session
        THEN Checked([used EXCEPT !.emergency_stop_triggered = TRUE], FALSE)
        ELSE Checked(used, TRUE)

\* ChaosGuardrails.check_retry_limit
check_retry_limit(g, retry_count) ==
    IF retry_count >= max_retries_per_request
    THEN Checked([g EXCEPT !.emergency_stop_triggered = TRUE], FALSE)
    ELSE Checked(g, TRUE)

\* ChaosGuardrails.check_session_duration
check_session_duration(g) ==
    IF g.elapsed >= max_session_duration_seconds
    THEN Checked([g EXCEPT !.emergency_stop_triggered = TRUE], FALSE)
    ELSE Checked(g, TRUE)

\* ChaosGuardrails.record_failure
record_failure(g) ==
    LET failed == [g EXCEPT !.consecutive_failures = @ + 1]
    IN  IF failed.consecutive_failures >= max_consecutive_failures
        THEN Checked([failed EXCEPT !.emergency_stop_triggered = TRUE], FALSE)
        ELSE Checked(failed, TRUE)

\* mutation of record_success: a success lifts the emergency stop
record_success_lifts(g) ==
    Checked([g EXCEPT !.consecutive_failures = 0, !.emergency_stop_triggered = FALSE], "None")

\* ChaosGuardrails.record_success
record_success(g) == Checked([g EXCEPT !.consecutive_failures = 0], "None")

\* ChaosGuardrails.should_stop
should_stop(g) == Checked(g, g.emergency_stop_triggered)

\* a caller calls the guardrails
Guarded(op, arg, out) ==
    /\ guard' = out.guard
    /\ ret' = [op |-> op, arg |-> arg, value |-> out.value]
    /\ UNCHANGED <<supVars, conv, mgr, ui, audit, probe, monitor, chaosVars>>

ResetSession == Guarded("reset_session", <<>>, reset_session(guard))

CheckTokenBudget(tokens_in, tokens_out) ==
    /\ guard.total_tokens_used + tokens_in + tokens_out <= MaxTokens
    /\ Guarded("check_token_budget", <<tokens_in, tokens_out>>,
               check_token_budget(guard, tokens_in, tokens_out))

CheckRetryLimit(retry_count) ==
    Guarded("check_retry_limit", <<retry_count>>, check_retry_limit(guard, retry_count))

CheckSessionDuration ==
    Guarded("check_session_duration", <<>>, check_session_duration(guard))

RecordFailure ==
    /\ guard.consecutive_failures < MaxRecorded
    /\ Guarded("record_failure", <<>>, record_failure(guard))

RecordSuccess == Guarded("record_success", <<>>, record_success(guard))

ShouldStop == Guarded("should_stop", <<>>, should_stop(guard))

\* time.time() moves on between two calls
TimePasses ==
    /\ guard.elapsed + Pause <= MaxElapsed
    /\ guard' = [guard EXCEPT !.elapsed = @ + Pause]
    /\ UNCHANGED <<supVars, sessionVars, audit, probe, monitor, chaosVars>>

GuardNext ==
    \/ ResetSession
    \/ \E tokens_in, tokens_out \in TokenCounts : CheckTokenBudget(tokens_in, tokens_out)
    \/ \E retry_count \in 0..MaxRetry : CheckRetryLimit(retry_count)
    \/ CheckSessionDuration
    \/ RecordFailure
    \/ RecordSuccess
    \/ ShouldStop
    \/ TimePasses

GuardSpec == Init /\ [][GuardNext]_vars

\* ------------------------------------------------------------------ SessionMonitor: recovery tracker
\* requests closed with end_request (len(metrics_history) is unbounded in the code)
MaxClosed == 5

\* SessionMonitor.thresholds, the warning levels (latencies in tenths of a second)
thresholds ==
    [context_tokens |-> [warning |-> 8500, critical |-> 12000],
     llm_latency |-> [warning |-> 50, critical |-> 80],
     first_chunk_latency |-> [warning |-> 25, critical |-> 45],
     retries_per_request |-> [warning |-> 1, critical |-> 3],
     memory_retrieval_count |-> [warning |-> 2, critical |-> 5]]

\* the metric a turn records between start_request and end_request: none, a latency
\* below, at and above its warning level, and each other metric at its warning level
TurnRecordings ==
    {<<"none", 0>>, <<"llm_latency", 20>>, <<"llm_latency", 50>>, <<"llm_latency", 60>>,
     <<"context_size", 8500>>, <<"stream_first_chunk_latency", 25>>, <<"retry_count", 1>>,
     <<"memory_retrieval_count", 2>>}

\* the is_healthy flag of _update_recovery_status
is_healthy(metrics) ==
    ~ \/ metrics.context_size >= thresholds.context_tokens.warning
      \/ metrics.llm_latency >= thresholds.llm_latency.warning
      \/ metrics.stream_first_chunk_latency >= thresholds.first_chunk_latency.warning
      \/ metrics.retry_count >= thresholds.retries_per_request.warning
      \/ metrics.memory_retrieval_count >= thresholds.memory_retrieval_count.warning

\* mutation of _update_recovery_status: a degraded turn does not reset the count
update_recovery_status_no_reset(m) ==
    IF is_healthy(m.current_metrics)
    THEN IF m.in_recovery /\ m.consecutive_healthy_turns + 1 >= 3
         THEN [m EXCEPT !.consecutive_healthy_turns = @ + 1,
                        !.current_metrics.system_recovery_turns =
                            Len(m.metrics_history) - m.recovery_start_turn,
                        !.in_recovery = FALSE]
         ELSE [m EXCEPT !.consecutive_healthy_turns = @ + 1]
    ELSE IF ~m.in_recovery
         THEN [m EXCEPT !.in_recovery = TRUE,
                        !.recovery_start_turn = Len(m.metrics_history)]
         ELSE m

\* SessionMonitor._update_recovery_status
update_recovery_status(m) ==
    IF is_healthy(m.current_metrics)
    THEN IF m.in_recovery /\ m.consecutive_healthy_turns + 1 >= 3
         THEN [m EXCEPT !.consecutive_healthy_turns = @ + 1,
                        !.current_metrics.system_recovery_turns =
                            Len(m.metrics_history) - m.recovery_start_turn,
                        !.in_recovery = FALSE]
         ELSE [m EXCEPT !.consecutive_healthy_turns = @ + 1]
    ELSE IF ~m.in_recovery
         THEN [m EXCEPT !.in_recovery = TRUE,
                        !.recovery_start_turn = Len(m.metrics_history),
                        !.consecutive_healthy_turns = 0]
         ELSE [m EXCEPT !.consecutive_healthy_turns = 0]

\* SessionMonitor.end_request, by the recovery tracker
tracked_end_request(m) ==
    LET updated == update_recovery_status(m)
    IN  [updated EXCEPT !.metrics_history = Append(@, updated.current_metrics)]

\* one turn as test_guardrails.py (Test 5) and SmartLLMStream._run make it:
\* start_request, the turn's record_metric, end_request
MonitoredTurn(recording) ==
    /\ Len(recovery.metrics_history) < MaxClosed
    /\ LET started == [recovery EXCEPT !.current_metrics = NewTurnMetrics]
           recorded == IF recording[1] \in DOMAIN started.current_metrics
                       THEN [started EXCEPT !.current_metrics[recording[1]] = recording[2]]
                       ELSE started
       IN  recovery' = tracked_end_request(recorded)
    /\ UNCHANGED <<supVars, sessionVars, runtimeVars, chaos, experiment, registry,
                   singletons, limiter, collector>>

RecoveryNext == \E recording \in TurnRecordings : MonitoredTurn(recording)

RecoverySpec == Init /\ [][RecoveryNext]_vars

\* ------------------------------------------------------------------ chaos/fault_injection.py
\* the fault knobs of ChaosConfig
Knobs ==
    {"llm_latency_multiplier", "rate_limit_probability", "tool_failure_rate",
     "persistence_failure_rate", "memory_inflation_factor", "long_session_mode"}

\* a value away from the neutral default for each knob
Turned_up ==
    [llm_latency_multiplier |-> 20, rate_limit_probability |-> 50, tool_failure_rate |-> 50,
     persistence_failure_rate |-> 50, memory_inflation_factor |-> 20,
     long_session_mode |-> TRUE, experiment_id |-> "exp_env", experiment_type |-> "env"]

\* the dicts given to enable_faults: any of the knobs, with or without the experiment keys
FaultConfigs ==
    {[key \in keys |-> Turned_up[key]] :
        keys \in {knobs \cup tags : knobs \in SUBSET Knobs,
                                    tags \in {{}, {"experiment_id", "experiment_type"}}}}

\* dict.get(key, default)
get(config, key, default) == IF key \in DOMAIN config THEN config[key] ELSE default

\* enable_faults
enable_faults(c, config) ==
    [enabled |-> TRUE,
     llm_latency_multiplier |-> get(config, "llm_latency_multiplier", 10),
     rate_limit_probability |-> get(config, "rate_limit_probability", 0),
     tool_failure_rate |-> get(config, "tool_failure_rate", 0),
     persistence_failure_rate |-> get(config, "persistence_failure_rate", 0),
     memory_inflation_factor |-> get(config, "memory_inflation_factor", 10),
     long_session_mode |-> get(config, "long_session_mode", FALSE),
     experiment_id |-> get(config, "experiment_id", c.experiment_id),
     experiment_type |-> get(config, "experiment_type", c.experiment_type)]

\* disable_faults
disable_faults(c) ==
    [c EXCEPT !.enabled = FALSE, !.llm_latency_multiplier = 10,
              !.rate_limit_probability = 0, !.tool_failure_rate = 0,
              !.memory_inflation_factor = 10, !.long_session_mode = FALSE]

\* set_experiment_context
set_experiment_context(c, experiment_id, experiment_type) ==
    [c EXCEPT !.experiment_id = experiment_id, !.experiment_type = experiment_type]

\* what a direct call of the module leaves behind
Injected(op, arg, c) ==
    /\ chaos' = c
    /\ ret' = [op |-> op, arg |-> arg, value |-> "None"]
    /\ UNCHANGED <<supVars, conv, mgr, ui, runtimeVars, recovery, experiment, registry,
                   singletons, limiter, collector>>

\* enable_faults(config), also what load_from_env calls at import when
\* AGENT_CHAOS_CONFIG is set
EnableFaults(config) == Injected("enable_faults", config, enable_faults(chaos, config))

DisableFaults == Injected("disable_faults", <<>>, disable_faults(chaos))

SetExperimentContext(experiment_id, experiment_type) ==
    Injected("set_experiment_context", <<experiment_id, experiment_type>>,
             set_experiment_context(chaos, experiment_id, experiment_type))

ChaosNext ==
    \/ \E config \in FaultConfigs : EnableFaults(config)
    \/ DisableFaults
    \/ SetExperimentContext("exp_01", "latency")

ChaosSpec == Init /\ [][ChaosNext]_vars

\* ------------------------------------------------------------------ chaos/experiment_executor.py
\* the largest turns["baseline" | "chaos" | "recovery"] of an experiment dict
MaxPhaseTurns == 10

\* the turn counts of a phase: none, one, and enough for the consecutive-failure limit
PhaseTurns == {0, 1, MaxPhaseTurns}

\* experiment["faults"]
ExperimentFaults ==
    {config \in FaultConfigs :
        DOMAIN config \in {{}, {"tool_failure_rate"}, {"persistence_failure_rate"}}}

\* how the awaited router.route(user_input) of a turn ends
RouteOutcomes == {"returns", "raises", "cancelled"}

\* the objects run_experiment works on: its own frame, _chaos_config, the guardrails
\* singleton and the session monitor
Env(x, c, g, m) == [x |-> x, chaos |-> c, guard |-> g, recovery |-> m]

\* reset_environment
reset_environment(e) ==
    [e EXCEPT !.recovery.metrics_history = <<>>,
              !.recovery.consecutive_healthy_turns = 0,
              !.recovery.in_recovery = FALSE,
              !.guard = NewGuard]

\* run_turns from the top of its loop to "await router.route" (set_tags, start_request)
begin_turn(e, phase, done) ==
    [e EXCEPT !.x.pc = "route", !.x.phase = phase, !.x.turn = done + 1,
              !.x.ran = Append(@, [phase |-> phase, faults |-> e.chaos.enabled,
                                   stopped |-> e.guard.emergency_stop_triggered]),
              !.recovery.current_metrics = NewTurnMetrics]

\* return _create_failure_report / _create_success_report
report(e, status) == [e EXCEPT !.x.pc = "returned", !.x.report = status]

\* run_experiment from the loop of one run_turns call, done turns of the phase behind
\* it, to the next "await router.route" or to the return of the success report
RECURSIVE run_phases(_, _, _)
run_phases(e, phase, done) ==
    IF done < e.x.turns[phase]
    THEN begin_turn(e, phase, done)
    ELSE IF phase = "baseline"
    THEN run_phases([e EXCEPT !.chaos = enable_faults(@, e.x.faults)], "chaos", 0)
    ELSE IF phase = "chaos"
    THEN run_phases([e EXCEPT !.chaos = disable_faults(@)], "recovery", 0)
    ELSE report(e, "success")

\* mutation of kill_switch: a stop in the chaos phase returns without disable_faults
kill_switch_leaves_faults(e) ==
    report(e, <<"failed", e.x.phase>>)

\* the kill switch of run_turns has answered: run_experiment returns the failure report
kill_switch(e) ==
    IF e.x.phase = "chaos"
    THEN report([e EXCEPT !.chaos = disable_faults(@)], <<"failed", e.x.phase>>)
    ELSE report(e, <<"failed", e.x.phase>>)

\* run_turns after "await router.route": record_success or record_failure, end_request,
\* the kill switch, and on to the next turn
end_turn(e, outcome) ==
    IF outcome = "cancelled"
    THEN [e EXCEPT !.x.pc = "raised", !.x.report = "CancelledError"]
    ELSE LET Closed(closed) ==
                IF should_stop(closed.guard).value
                THEN kill_switch(closed)
                ELSE run_phases(closed, closed.x.phase, closed.x.turn)
         IN  Await(Closed,
                   [e EXCEPT !.guard = IF outcome = "returns" THEN record_success(@).guard
                                       ELSE record_failure(@).guard,
                             !.recovery = tracked_end_request(@)])

\* what a step of run_experiment leaves behind
Experimented(e) ==
    /\ experiment' = e.x
    /\ chaos' = e.chaos
    /\ guard' = e.guard
    /\ recovery' = e.recovery
    /\ UNCHANGED <<supVars, sessionVars, audit, probe, monitor, registry, singletons,
                   limiter, collector>>

\* run_experiment(router, experiment) up to its first "await router.route"
RunExperiment(turns, faults) ==
    /\ experiment.pc = "idle"
    /\ \E e \in {reset_environment(Env([experiment EXCEPT !.turns = turns,
                                                          !.faults = faults],
                                       set_experiment_context(chaos, "exp_01", "latency"),
                                       guard, recovery))} :
          Experimented(run_phases(e, "baseline", 0))

\* the awaited router.route of the turn ends
RouteEnds(outcome) ==
    /\ experiment.pc = "route"
    /\ Experimented(end_turn(Env(experiment, chaos, guard, recovery), outcome))

ExperimentNext ==
    \/ \E config \in ExperimentFaults : experiment.pc = "idle" /\ EnableFaults(config)
    \/ \E baseline, during, recovering \in PhaseTurns, faults \in ExperimentFaults :
          RunExperiment([baseline |-> baseline, chaos |-> during, recovery |-> recovering],
                        faults)
    \/ \E outcome \in RouteOutcomes : RouteEnds(outcome)

ExperimentSpec == Init /\ [][ExperimentNext]_vars

\* ------------------------------------------------------------------ module singletons
\* threads (or tasks) that call an accessor of a singleton
MaxCallers == 2

Accessors == {"get_registry", "get_classifier"}

\* a thread enters an accessor
Enter(accessor) ==
    /\ Len(singletons.callers) < MaxCallers
    /\ singletons' = [singletons EXCEPT !.callers =
                          Append(@, [accessor |-> accessor, pc |-> "check", got |-> 0])]
    /\ UNCHANGED <<supVars, sessionVars, runtimeVars, recovery, chaos, experiment, registry,
                   limiter, collector>>

\* one step of a thread inside get_registry: the test "_registry is None", the
\* assignment "_registry = ToolRegistry()", and "return _registry"
get_registry(s, t) ==
    LET pc == s.callers[t].pc
    IN  IF pc = "check"
        THEN [s EXCEPT !.callers[t].pc = IF s._registry = 0 THEN "create" ELSE "return"]
        ELSE IF pc = "create"
        THEN [s EXCEPT !.registries = @ + 1, !._registry = s.registries + 1,
                       !.callers[t].pc = "return"]
        ELSE [s EXCEPT !.callers[t].pc = "done", !.callers[t].got = s._registry]

\* one step of a thread inside get_classifier: the fast-path test, "with
\* _classifier_lock" (taken only when free), the second test and the construction
\* under the lock, the release, and "return _classifier"
get_classifier(s, t) ==
    LET pc == s.callers[t].pc
    IN  IF pc = "check"
        THEN [s EXCEPT !.callers[t].pc = IF s._classifier # 0 THEN "return" ELSE "lock"]
        ELSE IF pc = "lock"
        THEN [s EXCEPT !._classifier_lock = t, !.callers[t].pc = "recheck"]
        ELSE IF pc = "recheck"
        THEN [s EXCEPT !.callers[t].pc = IF s._classifier = 0 THEN "create" ELSE "unlock"]
        ELSE IF pc = "create"
        THEN [s EXCEPT !.classifiers = @ + 1, !._classifier = s.classifiers + 1,
                       !.callers[t].pc = "unlock"]
        ELSE IF pc = "unlock"
        THEN [s EXCEPT !._classifier_lock = 0, !.callers[t].pc = "return"]
        ELSE [s EXCEPT !.callers[t].pc = "done", !.callers[t].got = s._classifier]

\* the scheduler runs thread t for one step
AccessorStep(t) ==
    /\ t \in DOMAIN singletons.callers
    /\ singletons.callers[t].pc # "done"
    /\ singletons.callers[t].pc = "lock" => singletons._classifier_lock = 0
    /\ singletons' = IF singletons.callers[t].accessor = "get_registry"
                     THEN get_registry(singletons, t)
                     ELSE get_classifier(singletons, t)
    /\ UNCHANGED <<supVars, sessionVars, runtimeVars, recovery, chaos, experiment, registry,
                   limiter, collector>>

SingletonNext ==
    \/ \E accessor \in Accessors : Enter(accessor)
    \/ \E t \in 1..MaxCallers : AccessorStep(t)

SingletonSpec == Init /\ [][SingletonNext]_vars

\* ------------------------------------------------------------------ ToolRegistry
\* distinct tool names given to register_tool
MaxToolNames == 2

\* ToolMetadata objects, a fresh one for every call (tool_registry.py:128,
\* skills/registry.py:61, planning_tools.py:25): name, category, description
Metadata ==
    [name : 1..MaxToolNames, category : {"general", "music", "time"},
     description : {"plays", "plays a song"}]

\* list.remove(name): the first occurrence goes
remove(list, name) ==
    LET first == CHOOSE i \in DOMAIN list :
                     list[i] = name /\ \A j \in 1..(i - 1) : list[j] # name
    IN  [i \in 1..(Len(list) - 1) |-> IF i < first THEN list[i] ELSE list[i + 1]]

\* "name in list"
in(name, list) == \E i \in DOMAIN list : list[i] = name

\* mutation of register_tool: a re-registration leaves the old category list alone
register_tool_keeps_old(r, metadata) ==
    LET stored == [r EXCEPT !._tools = Put(@, metadata.name, metadata)]
        keyed == IF metadata.category \notin DOMAIN stored._categories
                 THEN [stored EXCEPT !._categories = Put(@, metadata.category, <<>>)]
                 ELSE stored
    IN  IF ~in(metadata.name, keyed._categories[metadata.category])
        THEN [keyed EXCEPT !._categories[metadata.category] = Append(@, metadata.name)]
        ELSE keyed

\* ToolRegistry.register_tool
register_tool(r, metadata) ==
    LET old_category == r._tools[metadata.name].category
        removed == IF /\ metadata.name \in DOMAIN r._tools
                      /\ old_category \in DOMAIN r._categories
                      /\ in(metadata.name, r._categories[old_category])
                   THEN [r EXCEPT !._categories[old_category] = remove(@, metadata.name)]
                   ELSE r
        stored == [removed EXCEPT !._tools = Put(@, metadata.name, metadata)]
        keyed == IF metadata.category \notin DOMAIN stored._categories
                 THEN [stored EXCEPT !._categories = Put(@, metadata.category, <<>>)]
                 ELSE stored
    IN  IF ~in(metadata.name, keyed._categories[metadata.category])
        THEN [keyed EXCEPT !._categories[metadata.category] = Append(@, metadata.name)]
        ELSE keyed

\* ToolRegistry.get_tools_by_category
get_tools_by_category(r, category) ==
    LET tool_names == get(r._categories, category, <<>>)
        Listed(i) == tool_names[i] \in DOMAIN r._tools
        RECURSIVE collect(_)
        collect(i) == IF i > Len(tool_names) THEN <<>>
                      ELSE IF Listed(i) THEN <<r._tools[tool_names[i]]>> \o collect(i + 1)
                      ELSE collect(i + 1)
    IN  collect(1)

RegisterTool(metadata) ==
    /\ registry' = register_tool(registry, metadata)
    /\ ret' = [op |-> "register_tool", arg |-> metadata, value |-> "None"]
    /\ UNCHANGED <<supVars, conv, mgr, ui, runtimeVars, recovery, chaos, experiment,
                   singletons, limiter, collector>>

RegistryNext == \E metadata \in Metadata : RegisterTool(metadata)

RegistrySpec == Init /\ [][RegistryNext]_vars

\* ------------------------------------------------------------------ utils/rate_limiter.py
\* acquire() calls made on the limiter
MaxAcquires == 3

\* how far time.time() is followed
MaxClock == 3

\* RateLimiter(max_calls, period) as the tests build it (test_ratelimit.py:8, 24)
LimiterArgs == {<<2, 1>>, <<1, 1>>}

\* RateLimiter.__init__
MakeLimiter(max_calls, period) ==
    /\ ~limiter.made
    /\ limiter' = [limiter EXCEPT !.made = TRUE, !.max_calls = max_calls,
                                  !.period = period]
    /\ UNCHANGED <<supVars, sessionVars, runtimeVars, recovery, chaos, experiment, registry,
                   singletons, collector>>

\* "while self.calls and self.calls[0] < now - self.period: self.calls.popleft()"
RECURSIVE popleft_old(_, _, _)
popleft_old(calls, now, period) ==
    IF calls # <<>> /\ calls[1] < now - period
    THEN popleft_old(Tail(calls), now, period)
    ELSE calls

\* "self.calls.append(time.time())" and the end of "async with self.lock"
appended(l, t, waited) ==
    [l EXCEPT !.calls = Append(@, l.clock), !.lock = 0, !.tasks[t].pc = "done",
              !.acquired = Append(@, [task |-> t, at |-> l.clock, waited |-> waited])]

\* acquire() from the moment it holds the lock to the sleep or to the end
acquire_locked(l, t) ==
    LET now == l.clock
        kept == [l EXCEPT !.lock = t, !.calls = popleft_old(@, now, l.period)]
        wait == kept.calls[1] + l.period - now
    IN  IF Len(kept.calls) >= l.max_calls /\ wait > 0
        THEN [kept EXCEPT !.tasks[t].pc = "sleep", !.tasks[t].wake = now + wait]
        ELSE appended(kept, t, FALSE)

\* a task calls acquire() and waits for the lock
Acquire ==
    /\ limiter.made
    /\ Len(limiter.tasks) < MaxAcquires
    /\ limiter' = [limiter EXCEPT !.tasks = Append(@, [pc |-> "lock", wake |-> 0])]
    /\ UNCHANGED <<supVars, sessionVars, runtimeVars, recovery, chaos, experiment, registry,
                   singletons, collector>>

\* the lock goes to the task that has waited longest (asyncio.Lock is fair)
AcquireLocked(t) ==
    /\ t \in DOMAIN limiter.tasks
    /\ limiter.tasks[t].pc = "lock"
    /\ limiter.lock = 0
    /\ \A u \in 1..(t - 1) : limiter.tasks[u].pc # "lock"
    /\ limiter' = acquire_locked(limiter, t)
    /\ UNCHANGED <<supVars, sessionVars, runtimeVars, recovery, chaos, experiment, registry,
                   singletons, collector>>

\* asyncio.sleep(wait) is over: not before wait has passed
AcquireWakes(t) ==
    /\ t \in DOMAIN limiter.tasks
    /\ limiter.tasks[t].pc = "sleep"
    /\ limiter.clock >= limiter.tasks[t].wake
    /\ limiter' = appended(limiter, t, TRUE)
    /\ UNCHANGED <<supVars, sessionVars, runtimeVars, recovery, chaos, experiment, registry,
                   singletons, collector>>

\* time.time() reads one more
ClockTicks ==
    /\ limiter.made
    /\ limiter.clock < MaxClock
    /\ limiter' = [limiter EXCEPT !.clock = @ + 1]
    /\ UNCHANGED <<supVars, sessionVars, runtimeVars, recovery, chaos, experiment, registry,
                   singletons, collector>>

LimiterNext ==
    \/ \E args \in LimiterArgs : MakeLimiter(args[1], args[2])
    \/ Acquire
    \/ \E t \in 1..MaxAcquires : AcquireLocked(t)
    \/ \E t \in 1..MaxAcquires : AcquireWakes(t)
    \/ ClockTicks

LimiterSpec == Init /\ [][LimiterNext]_vars

\* ------------------------------------------------------------------ SmartLLMStream._run: chaos faults
\* what random.random() returns, in percent
Draws == {0, 49, 99}

\* the ChaosConfig objects get_chaos_config() can hand to _run, field by field
ChaosConfigs ==
    {[NewChaos EXCEPT !.enabled = enabled, !.llm_latency_multiplier = multiplier,
                      !.rate_limit_probability = rate, !.tool_failure_rate = failure] :
        enabled \in BOOLEAN, multiplier \in {10, 20}, rate \in {0, 50},
        failure \in {0, 50}}

\* the outcome of the chaos block of _run: whether it slept, the exception it raised
Injection(slept, raised) == [slept |-> slept, raised |-> raised]

\* mutation of chaos_faults: the 500 fault is only logged
chaos_faults_logged(c, rate_draw, failure_draw) ==
    IF ~c.enabled
    THEN Injection(FALSE, "none")
    ELSE IF c.rate_limit_probability > 0 /\ rate_draw < c.rate_limit_probability
    THEN Injection(c.llm_latency_multiplier > 10, "429")
    ELSE Injection(c.llm_latency_multiplier > 10, "none")

\* "CHAOS FAULT INJECTION" in _run: latency, then the simulated 429, then the
\* simulated 500
chaos_faults(c, rate_draw, failure_draw) ==
    IF ~c.enabled
    THEN Injection(FALSE, "none")
    ELSE IF c.rate_limit_probability > 0 /\ rate_draw < c.rate_limit_probability
    THEN Injection(c.llm_latency_multiplier > 10, "429")
    ELSE IF c.tool_failure_rate > 0 /\ failure_draw < c.tool_failure_rate
    THEN Injection(c.llm_latency_multiplier > 10, "500")
    ELSE Injection(c.llm_latency_multiplier > 10, "none")

\* _run from start_request to base_llm.chat: the chaos block decides whether chat is
\* reached; chat returns the stream or raises
RunUnderChaos(rate_draw, failure_draw, chat) ==
    /\ monitor.pc = "idle"
    /\ monitor.runs < MaxRuns
    /\ \E injected \in {chaos_faults(chaos, rate_draw, failure_draw)} :
          LET started == [start_request(monitor) EXCEPT !.tokens_out = 0]
              called == injected.raised = "none"
          IN  /\ IF called /\ chat = "returns"
                 THEN /\ monitor' = [started EXCEPT !.pc = "streaming", !.met = "none",
                                                    !.raised = "none"]
                      /\ probe' = [NewProbe EXCEPT !.made = TRUE, !.stream = "async aclose"]
                 ELSE /\ monitor' = run_failed(started, IF called THEN "chat raises"
                                                        ELSE injected.raised)
                      /\ UNCHANGED probe
              /\ ret' = [op |-> "_run", arg |-> <<rate_draw, failure_draw>>,
                         value |-> [slept |-> injected.slept, fault |-> injected.raised,
                                    chat_called |-> called]]
    /\ UNCHANGED <<supVars, conv, mgr, ui, audit, guard, recovery, chaos, experiment,
                   registry, singletons, limiter, collector>>

\* the fault dicts that turn the knobs _run reads
LlmFaults ==
    {config \in FaultConfigs :
        DOMAIN config \subseteq {"llm_latency_multiplier", "rate_limit_probability",
                                 "tool_failure_rate"}}

FaultNext ==
    \/ \E config \in LlmFaults : EnableFaults(config)
    \/ DisableFaults
    \/ \E rate_draw, failure_draw \in Draws, chat \in {"returns", "raises"} :
          RunUnderChaos(rate_draw, failure_draw, chat)
    \/ RunChunk("ends")

FaultSpec == Init /\ [][FaultNext]_vars

\* ------------------------------------------------------------------ SessionMonitor: overlapping writers
\* SmartLLMStream._run coroutines alive on the event loop
MaxOverlap == 2

\* the metrics a stream records between two awaits of _run
StreamMetrics == {"context_size", "llm_latency"}

\* SmartLLMStream._run begins: monitor.start_request() makes a new RequestMetrics
\* object and current_metrics refers to it
OverlapStart ==
    /\ Len(collector.streams) < MaxOverlap
    /\ collector' = [collector EXCEPT !.objects = Append(@, {}),
                                      !.current_metrics = Len(collector.objects) + 1,
                                      !.streams = Append(@, "open")]
    /\ UNCHANGED <<supVars, sessionVars, runtimeVars, recovery, chaos, experiment, registry,
                   singletons, limiter>>

\* monitor.record_metric(metric, value) by stream s: setattr on the object
\* current_metrics refers to now
OverlapRecord(s, metric) ==
    /\ s \in DOMAIN collector.streams
    /\ collector.streams[s] = "open"
    /\ collector' = [collector EXCEPT !.objects[collector.current_metrics] =
                                          @ \cup {<<s, metric>>}]
    /\ UNCHANGED <<supVars, sessionVars, runtimeVars, recovery, chaos, experiment, registry,
                   singletons, limiter>>

\* monitor.end_request() by stream s: the object current_metrics refers to now is
\* appended to metrics_history
OverlapEnd(s) ==
    /\ s \in DOMAIN collector.streams
    /\ collector.streams[s] = "open"
    /\ collector' = [collector EXCEPT
                        !.metrics_history = Append(@, [object |-> collector.current_metrics,
                                                       by |-> s]),
                        !.streams[s] = "done"]
    /\ UNCHANGED <<supVars, sessionVars, runtimeVars, recovery, chaos, experiment, registry,
                   singletons, limiter>>

\* the supervisor's loops: record_metric("stt_downtime", ...) and
\* record_metric("reconnect_attempts", 1, increment=True); the streams are the
\* writers 1.., the supervisor is writer 0
SupervisorRecords(metric) ==
    /\ <<0, metric>> \notin collector.objects[collector.current_metrics]
    /\ collector' = [collector EXCEPT !.objects[collector.current_metrics] =
                                          @ \cup {<<0, metric>>}]
    /\ UNCHANGED <<supVars, sessionVars, runtimeVars, recovery, chaos, experiment, registry,
                   singletons, limiter>>

OverlapNext ==
    \/ OverlapStart
    \/ \E s \in 1..MaxOverlap, metric \in StreamMetrics : OverlapRecord(s, metric)
    \/ \E s \in 1..MaxOverlap : OverlapEnd(s)
    \/ \E metric \in {"stt_downtime", "reconnect_attempts"} : SupervisorRecords(metric)

OverlapSpec == Init /\ [][OverlapNext]_vars

\* ------------------------------------------------------------------ Assistant.llm_node to the base LLM
\* the chat contexts the agent session hands to llm_node: the conversation so far,
\* ending with the user message of the turn
TurnContexts ==
    {<<[role |-> "user", content |-> <<"user text">>]>>,
     <<[role |-> "system", content |-> <<"old prompt">>],
       [role |-> "user", content |-> <<"user text">>]>>,
     <<[role |-> "user", content |-> <<"earlier text">>],
       [role |-> "assistant", content |-> <<"earlier reply">>],
       [role |-> "user", content |-> <<"user text">>]>>}

\* chat_ctx.add_message(role="system", content=...) of llm_node
add_message(chat_ctx, added) ==
    IF added = NoText THEN chat_ctx
    ELSE Append(chat_ctx, [role |-> "system", content |-> added])

\* one turn from llm_node to base_llm.chat: llm_node routes the message, adds the
\* tool result to chat_ctx and calls SmartLLM.chat(chat_ctx=chat_ctx), whose stream
\* builds new_ctx from that chat_ctx and hands it to the base LLM
PhraseTurn(turn, chat_ctx, answer) ==
    /\ NewTraceId(audit) <= MaxCalls
    /\ \E out \in {llm_node(audit, turn)} :
       \E passed \in {add_message(chat_ctx, out.added)} :
          /\ audit' = out.log
          /\ ret' = [op |-> "phrase", arg |-> <<turn.call.name, turn.call.user_role>>,
                     value |-> [llm_invoked |-> out.llm_invoked, added |-> out.added,
                                returned |-> out.returned, raised |-> out.raised,
                                chat_ctx |-> passed,
                                received |-> IF out.llm_invoked
                                             THEN new_ctx(passed, answer) ELSE <<>>]]
    /\ UNCHANGED <<supVars, conv, mgr, ui, probe, monitor, guard, chaosVars>>

PhraseNext ==
    \E turn \in Turns, chat_ctx \in TurnContexts, answer \in BuilderAnswers :
        PhraseTurn(turn, chat_ctx, answer)

PhraseSpec == Init /\ [][PhraseNext]_vars

\* ------------------------------------------------------------------ properties
Registered == DOMAIN health_map

\* a task that can still make a reconnect attempt: it has not finished and no
\* cancellation is pending for it
Live(t) == t.pc \in {"new", "sleep", "attempt"}

\* every Task object of provider n
TasksOf(n) == TaskAt("dict", n) \cup TaskAt("orphan", n)

\* number of live reconnect Tasks of provider n
LiveCount(n) ==
    (IF \E t \in TaskAt("dict", n) : Live(t) THEN 1 ELSE 0)
    + BagCardinality([t \in {x \in BagToSet(orphans) : x.name = n /\ Live(x)} |-> orphans[t]])

\* the state of a registered provider as a function of its failure_count
C1_StateOfCount ==
    \A n \in Registered :
        LET h == health_map[n]
        IN  /\ h.state \in {"HEALTHY", "DEGRADED", "OFFLINE"}
            /\ h.state = "HEALTHY" <=> h.failure_count = 0
            /\ h.state = "DEGRADED" <=> h.failure_count \in 1..3
            /\ h.state = "OFFLINE" <=> h.failure_count > 3

\* what one mark_failed / mark_healthy call does to the health of its provider
C1_Step ==
    \A n \in Registered :
        /\ MarkFailed(n) =>
              /\ health_map'[n].failure_count = health_map[n].failure_count + 1
              /\ health_map[n].state = "HEALTHY" => health_map'[n].state = "DEGRADED"
              /\ health_map'[n].state = "OFFLINE" <=> health_map'[n].failure_count > 3
        /\ MarkHealthy(n) =>
              /\ health_map'[n].state = "HEALTHY"
              /\ health_map'[n].failure_count = 0

\* C1: for a registered provider the state is a function of failure_count, the
\* number of failures since the last success: HEALTHY at 0, DEGRADED at 1..3,
\* OFFLINE from the 4th failure on; mark_failed adds one failure (so HEALTHY goes
\* to DEGRADED), mark_healthy gives HEALTHY with failure_count 0 from any state.
C1_HealthTransitions == []C1_StateOfCount /\ [][C1_Step]_vars

\* C1 witness: a provider that has just gone OFFLINE at its 4th failure
C1_Witness == \E n \in Registered :
    health_map[n].state = "OFFLINE" /\ health_map[n].failure_count = 4

\* C2: in every reachable state each provider has at most one live reconnect task
\* (a task for which mark_healthy has requested cancellation and which has not yet
\* run its CancelledError handler is no longer live).
C2_OneReconnectTask == \A n \in Names : LiveCount(n) <= 1

\* C2 witness: the provider went OFFLINE again while the task cancelled by
\* mark_healthy has not finished yet: one live task next to a dying one
C2_Witness == \E n \in Names :
    /\ LiveCount(n) = 1
    /\ \E t \in TaskAt("orphan", n) : t.pc = "cancelling"

\* C3: whenever a provider is OFFLINE, a reconnect task for it exists in
\* _reconnect_tasks (a live one while the supervisor runs), or the running monitor
\* loop spawns one at its next tick.
C3_OfflineHasReconnect ==
    \A n \in Registered :
        health_map[n].state = "OFFLINE" =>
            \/ /\ n \in DOMAIN reconnect_tasks
               /\ running => Live(reconnect_tasks[n])
            \/ /\ n \notin DOMAIN reconnect_tasks
               /\ running
               /\ monitoring_task \in {"new", "sleep"}

\* C3 witness: an OFFLINE provider of a running supervisor, its task asleep
C3_Witness == \E n \in Registered :
    /\ health_map[n].state = "OFFLINE"
    /\ running
    /\ n \in DOMAIN reconnect_tasks
    /\ reconnect_tasks[n].pc = "sleep"

\* the waits the claim lists: 2 s, 5 s, 10 s, 30 s and 30 s from then on
ExpectedWait(i) == CASE i = 1 -> 2 [] i = 2 -> 5 [] i = 3 -> 10 [] OTHER -> 30

\* the waits a live reconnect loop has computed so far
C5_Waits ==
    \A n \in Names : \A t \in TasksOf(n) :
        Live(t) =>
            /\ Len(t.waits) = (IF t.pc = "new" THEN 0 ELSE t.attempt + 1)
            /\ \A i \in 1..Len(t.waits) : t.waits[i] = ExpectedWait(i)

\* what the return of attempt_reconnect does to the loop of the task in the dict
C5_Step ==
    \A n \in Names :
        (n \in DOMAIN reconnect_tasks /\ reconnect_tasks[n].pc = "attempt") =>
            /\ (ReconnectStep("dict", n, "false") \/ ReconnectStep("dict", n, "raise")) =>
                  /\ n \in DOMAIN reconnect_tasks'
                  /\ reconnect_tasks'[n].attempt = reconnect_tasks[n].attempt + 1
                  /\ reconnect_tasks'[n].pc = "sleep"
                  /\ health_map' = health_map
            /\ ReconnectStep("dict", n, "ok") =>
                  /\ health_map'[n].state = "HEALTHY"
                  /\ n \notin DOMAIN reconnect_tasks'
                  /\ LiveCount(n)' = 0

\* C5: the waits of a reconnect loop are 2, 5, 10, 30, 30, ... one per attempt
\* index; a failed attempt (attempt_reconnect false or raising) advances the index
\* by exactly one and the loop sleeps again; a successful attempt marks the provider
\* HEALTHY and ends the loop.
C5_Backoff == []C5_Waits /\ [][C5_Step]_vars

\* C5 witness: a loop in its fifth wait, after four failed attempts
C5_Witness == \E n \in Names : \E t \in TaskAt("dict", n) :
    t.pc = "sleep" /\ t.waits = <<2, 5, 10, 30, 30>>

\* the invocations nt are one per listener of ls, in order, each with (n, st)
NotifiedAll(nt, ls, n, st) ==
    /\ Len(nt) = Len(ls)
    /\ \A i \in 1..Len(ls) :
          /\ nt[i].listener = i
          /\ nt[i].name = n
          /\ nt[i].state = st
          /\ nt[i].how = (CASE ls[i] = "sync" -> "called"
                            [] ls[i] = "raises" -> "raised"
                            [] ls[i] = "async" -> "scheduled")

\* every registered listener was invoked by the latest operation with (n, st)
AllNotified(n, st) == NotifiedAll(notifications, listeners, n, st)

\* a run of a task whose cancellation is pending only ends the task
CancelledRunsNothing(n) ==
    (\A t \in TaskAt("orphan", n) : t.pc = "cancelling") =>
        \A o \in AttemptOutcomes :
            ReconnectStep("orphan", n, o) =>
                /\ UNCHANGED <<health_map, providers, reconnect_tasks>>
                /\ BagCardinality(orphans') = BagCardinality(orphans) - 1

\* what one mark_healthy call does, and what a cancelled task does afterwards
C4_Step ==
    \A n \in Registered :
        /\ MarkHealthy(n) =>
              /\ health_map'[n].state = "HEALTHY"
              /\ health_map'[n].failure_count = 0
              /\ health_map[n].state = "HEALTHY" => health_map'[n] = health_map[n]
              /\ NotifiedAll(notifications', listeners', n, "HEALTHY")
              /\ n \notin DOMAIN reconnect_tasks'
              /\ LiveCount(n)' = 0
        /\ CancelledRunsNothing(n)

\* C4: mark_healthy(n) on a registered provider, from any state, gives state
\* HEALTHY and failure_count 0 (an already healthy provider keeps its state),
\* invokes every listener with (n, HEALTHY), and removes the provider's task from
\* _reconnect_tasks with its cancellation requested: no live task of n is left,
\* and a cancelled task, when it runs, only ends.
C4_MarkHealthy == [][C4_Step]_vars

\* C4 witness: mark_healthy has just cancelled the reconnect task of an OFFLINE
\* provider and the listeners have been told
C4_Witness == \E n \in Registered :
    /\ health_map[n].state = "HEALTHY"
    /\ Len(listeners) = 2
    /\ AllNotified(n, "HEALTHY")
    /\ n \notin DOMAIN reconnect_tasks
    /\ CancellingTask(n) \in BagToSet(orphans)

\* mark_failed / mark_healthy with a raising listener among the registered ones
C7_Step ==
    \A n \in Registered :
        (\E i \in 1..Len(listeners) : listeners[i] = "raises") =>
            /\ MarkFailed(n) =>
                  /\ health_map'[n].failure_count = health_map[n].failure_count + 1
                  /\ NotifiedAll(notifications', listeners', n, health_map'[n].state)
                  /\ health_map'[n].state = "OFFLINE" =>
                        /\ n \in DOMAIN reconnect_tasks'
                        /\ n \notin DOMAIN reconnect_tasks => reconnect_tasks'[n].pc = "new"
            /\ MarkHealthy(n) =>
                  /\ health_map'[n].failure_count = 0
                  /\ NotifiedAll(notifications', listeners', n, "HEALTHY")

\* C7: with a raising listener registered, mark_failed / mark_healthy still apply
\* the health change, still invoke every registered listener, and mark_failed
\* still spawns the reconnect task when the state became OFFLINE.
C7_ListenerRaiseSwallowed == [][C7_Step]_vars

\* C7 witness: the first of two listeners raised, the second was still called, the
\* provider is OFFLINE and its reconnect task has been created
C7_Witness == \E n \in Registered :
    /\ listeners = <<"raises", "sync">>
    /\ AllNotified(n, "OFFLINE")
    /\ n \in DOMAIN reconnect_tasks
    /\ reconnect_tasks[n].pc = "new"

\* a step that changes the state of a registered provider tells every listener
C8_Step ==
    \A n \in Registered :
        (n \in Registered' /\ health_map'[n].state # health_map[n].state /\ listeners # <<>>) =>
            NotifiedAll(notifications', listeners', n, health_map'[n].state)

\* C8: whenever the state get_health(n) reports changes, every
\* registered listener is invoked with (n, new state) in that step, also when the
\* change comes from the name being registered again.
C8_EveryChangeNotified == [][C8_Step]_vars

\* C6: under fair scheduling of the reconnect task and with attempt_reconnect
\* eventually returning True, a provider that is OFFLINE while the supervisor runs
\* becomes HEALTHY again with no reconnect task left for it (unless the supervisor
\* is stopped first).
C6_Recovers ==
    \A n \in LiveNames :
        (n \in Registered /\ health_map[n].state = "OFFLINE" /\ running)
            ~> (\/ ~running
                \/ /\ n \in Registered
                   /\ health_map[n].state = "HEALTHY"
                   /\ n \notin DOMAIN reconnect_tasks
                   /\ LiveCount(n) = 0)

\* C6 witness: an OFFLINE provider whose first three reconnect attempts have failed
\* and whose fourth is under way
C6_Witness == \E n \in Registered :
    /\ health_map[n].state = "OFFLINE"
    /\ health_map[n].failure_count = 4
    /\ running
    /\ n \in DOMAIN reconnect_tasks
    /\ reconnect_tasks[n].pc = "attempt"
    /\ reconnect_tasks[n].attempt = 3

\* the stream a step has handed out: the one record streams has gained
Returned(st) == streams' = streams (+) SetToBag({st})

\* what one stream() / synthesize() call on a proxy does, by what the provider did
C9_Step ==
    \A n \in Names : \A m \in Methods(n) :
        /\ ProxyCall(n, m, "raise") =>
              /\ health_map'[n].failure_count = health_map[n].failure_count + 1
              /\ \E st \in StreamRecords :
                    /\ Returned(st)
                    /\ st.name = n /\ st.client = 0
                    /\ Emits(st.kind) = (IF n = "stt" THEN "nothing" ELSE "silence")
        /\ ProxyCall(n, m, "ok") =>
              /\ health_map'[n].state = "HEALTHY"
              /\ health_map'[n].failure_count = 0
              /\ \E st \in StreamRecords :
                    /\ Returned(st)
                    /\ st.name = n /\ st.client = providers[n].client
                    /\ Emits(st.kind) = "vendor"

\* C9: a stream() / synthesize() call on a proxy always returns a stream: when the
\* wrapped provider raises, one failure is recorded and the fallback stream comes back
\* (never emitting for STT, silence for TTS); when it succeeds the provider is marked
\* healthy and the provider's own stream on the current client comes back.
C9_ProxyNeverRaises == [][C9_Step]_vars

\* C9 witness: a provider whose proxy has handed out a fallback stream on a failure
\* and then a real stream on a success
C9_Witness == \E n \in Registered :
    /\ health_map[n].state = "HEALTHY"
    /\ \E st \in BagToSet(streams) : st.name = n /\ Emits(st.kind) # "vendor"
    /\ \E st \in BagToSet(streams) : st.name = n /\ Emits(st.kind) = "vendor"

\* what a swap does to the proxy and to the streams, and where a later call goes
C10_Step ==
    \A n \in Names :
        /\ ReplaceProvider(n) => providers'[n].client # providers[n].client
        /\ (n \in DOMAIN providers /\ n \in DOMAIN providers' /\ providers'[n] # providers[n])
              => streams' = streams
        /\ \A m \in Methods(n) :
              ProxyCall(n, m, "ok") =>
                  \E st \in StreamRecords :
                      /\ Returned(st)
                      /\ st.client = providers[n].client

\* C10: replace_provider swaps the client of the proxy; the streams handed out before
\* are left as they are, on the client they were made by, and every later call that
\* succeeds gets its stream from the new client, never from the replaced one.
C10_HotSwap == [][C10_Step]_vars

\* C10 witness: after a swap, one stream still runs against the replaced client and
\* a later one against the new client
C10_Witness == \E n \in DOMAIN providers :
    /\ \E st \in BagToSet(streams) : st.name = n /\ st.client \notin {0, providers[n].client}
    /\ \E st \in BagToSet(streams) : st.name = n /\ st.client = providers[n].client

\* what one direct attempt_reconnect() call does, by what the factory did
C11_Step ==
    \A n \in Names :
        /\ AttemptReconnect(n, "client") =>
              /\ ret'.value = TRUE
              /\ providers'[n].client # providers[n].client
              /\ \A st \in BagToSet(streams) : st.name = n => st.client # providers'[n].client
        /\ AttemptReconnect(n, "raise") =>
              /\ ret'.value = FALSE
              /\ providers' = providers

\* C11: attempt_reconnect installs the client the factory returns and gives True;
\* when the factory raises it gives False (it returns, nothing escapes) and the
\* proxy keeps the client it had.
C11_AttemptReconnect == [][C11_Step]_vars

\* C11 witness: attempt_reconnect has returned True and a later call got its
\* stream from the client it installed, while an earlier stream is on the old one
C11_Witness == \E n \in DOMAIN providers :
    /\ ret = [op |-> "attempt_reconnect", arg |-> n, value |-> TRUE]
    /\ \E st \in BagToSet(streams) : st.name = n /\ st.client = providers[n].client
    /\ \E st \in BagToSet(streams) : st.name = n /\ st.client \notin {0, providers[n].client}

\* ------------------------------------------------------------------ C12
\* the session run() starts is the one attached to the conversation, and no crashed
\* session is attached
C12_Attached ==
    /\ mgr.pc = "start" => conv.current_audio_session = mgr.session
    /\ conv.current_audio_session \notin mgr.crashed

\* a crash detaches and sleeps the current delay before anything else; the restart
\* that follows the sleep attaches a session of its own and starts it
C12_Step ==
    /\ StartRaises =>
          /\ conv'.current_audio_session = 0
          /\ mgr'.pc = "sleep"
          /\ mgr'.sleeps = Append(mgr.sleeps, mgr.reconnect_delay)
          /\ mgr'.made = mgr.made
    /\ (mgr.running /\ Wake("session")) =>
          /\ mgr'.session \notin mgr.crashed
          /\ conv'.current_audio_session = mgr'.session
          /\ mgr'.pc = "start"

\* C12: when session.start() raises, the manager detaches the crashed session, sleeps
\* the current delay, asks the factory for a new session, attaches it and re-enters
\* start, in this order; a crashed session is never attached again and a session is
\* attached before it is started.
C12_RestartSequence == [](C12_Attached) /\ [][C12_Step]_vars

\* ------------------------------------------------------------------ C13
RECURSIVE Pow(_, _)
Pow(b, e) == IF e = 0 THEN 1 ELSE b * Pow(b, e - 1)

\* min(2 * 1.5^(k-1), 30) seconds, in ticks
ExpectedSleep(k) == Min((2 * TicksPerSecond * Pow(3, k - 1)) \div Pow(2, k - 1), 30 * TicksPerSecond)

\* C13: the restart delay starts at 2 s, grows by the factor 1.5 with each crash and is
\* capped at 30 s: the sleep before the k-th restart is min(2 * 1.5^(k-1), 30) s, and
\* the delay never exceeds 30 s.
C13_RestartDelay ==
    /\ mgr.reconnect_delay <= 30 * TicksPerSecond
    /\ Len(mgr.sleeps) = 0 => mgr.reconnect_delay = 2 * TicksPerSecond
    /\ \A k \in 1..Len(mgr.sleeps) : mgr.sleeps[k] = ExpectedSleep(k)

\* C13 witness: the run has slept eight times, the eighth time for the capped 30 s,
\* the seventh for less
C13_Witness ==
    /\ Len(mgr.sleeps) >= 8
    /\ mgr.sleeps[7] < 30 * TicksPerSecond
    /\ mgr.sleeps[8] = 30 * TicksPerSecond
    /\ mgr.crashed # {}

\* ------------------------------------------------------------------ C14
\* once constructed, the conversation keeps its user_id and its memory_manager
C14_Step ==
    conv.exists => /\ conv'.exists
                   /\ conv'.user_id = conv.user_id
                   /\ conv'.memory_manager = conv.memory_manager

\* C14: across crashes and restarts of the audio session the conversation's user_id
\* and memory_manager are never reassigned, and every session the factory returns is
\* attached to that same ConversationSession.
C14_ConversationKept ==
    /\ [][C14_Step]_vars
    /\ [](conv.attached = [i \in 1..mgr.made |-> i])

\* C14 witness: the third session runs after two crashes, attached to the
\* conversation that was constructed before the first
C14_Witness ==
    /\ mgr.pc = "start"
    /\ mgr.crashed = {1, 2}
    /\ conv.current_audio_session = 3
    /\ conv.user_id = "user-1"
    /\ conv.memory_manager = "memory-1"

\* ------------------------------------------------------------------ C15
\* run() was left because of a cancellation
Cancelled == mgr.pc = "done" /\ mgr.exit \in {"cancelled", "cancelled-raised"}

\* from the cancellation request on no session is created or started; its delivery
\* ends run() and leaves no live reconnect task, and none appears afterwards
C15_Step ==
    /\ mgr.cancel => /\ mgr'.made = mgr.made
                     /\ mgr'.session = mgr.session
                     /\ mgr'.pc \in {mgr.pc, "done"}
    /\ ManagerCancelled =>
          /\ Cancelled'
          /\ ~running'
          /\ \A n \in DOMAIN reconnect_tasks' : reconnect_tasks'[n].pc \in {"cancelling", "done"}
          /\ \A n \in JobNames : LiveCount(n)' = 0
    /\ Cancelled =>
          /\ mgr' = mgr
          /\ providers' = providers
          /\ \A n \in JobNames : LiveCount(n)' = 0

\* C15: a cancellation that arrives inside session.start() or inside the backoff
\* sleep stops the manager's loop without another session being created or started,
\* and every pending reconnect task of the supervisor is cancelled: no reconnect
\* attempt runs afterwards.
C15_Cancellation == [][C15_Step]_vars

\* C15 witness: the cancellation arrived inside the backoff sleep while the STT
\* reconnect task was pending; run() is left and the task has its cancellation
C15_Witness ==
    /\ mgr.pc = "done"
    /\ mgr.exit = "cancelled-raised"
    /\ mgr.crashed # {}
    /\ "stt" \in DOMAIN reconnect_tasks
    /\ reconnect_tasks["stt"].pc = "cancelling"

\* ------------------------------------------------------------------ C16
\* the messages enqueued by the latest step
Enqueued(c) == {c.announced[i] : i \in 1..Len(c.announced)}

\* the voice path of the specification
VoicePath == {"stt", "tts"}

\* the orchestrator has a session to speak with
CanSpeak(c) == c.orchestrator # "none" /\ c.orch_session # 0

\* a voice-path provider leaving HEALTHY puts the conversation into RECONNECTING, with
\* the notice when it was not there yet; the return of the last unhealthy one brings
\* it back, with the other notice (the notices where there is a session to speak with)
C16_Step ==
    \A n \in VoicePath :
        (conv.exists /\ n \in Registered /\ n \in Registered') =>
            /\ (health_map[n].state = "HEALTHY" /\ health_map'[n].state # "HEALTHY") =>
                  /\ conv'.audio_state = "RECONNECTING"
                  /\ (conv.audio_state = "HEALTHY" /\ CanSpeak(conv)) =>
                        TroubleNotice \in Enqueued(conv')
            /\ (/\ health_map[n].state # "HEALTHY"
                /\ \A m \in VoicePath \cap Registered' : health_map'[m].state = "HEALTHY") =>
                  /\ conv'.audio_state = "HEALTHY"
                  /\ (conv.audio_state = "RECONNECTING" /\ CanSpeak(conv)) =>
                        RestoredNotice \in Enqueued(conv')

\* C16: when a voice-path provider (stt or tts) leaves HEALTHY the conversation's
\* audio_state becomes RECONNECTING and the trouble notice is enqueued; when the
\* provider is HEALTHY again audio_state is HEALTHY again and 'Voice connection
\* restored.' is enqueued.
C16_VoicePathAnnounced == [][C16_Step]_vars

\* ------------------------------------------------------------------ C17
\* a change of audio_state enqueues its notice once, and nothing else enqueues any
C17_Step ==
    conv.exists =>
        /\ (conv.audio_state = "HEALTHY" /\ conv'.audio_state = "RECONNECTING") =>
              conv'.announced = <<TroubleNotice>>
        /\ (conv.audio_state = "RECONNECTING" /\ conv'.audio_state = "HEALTHY") =>
              conv'.announced = <<RestoredNotice>>
        /\ conv'.audio_state = conv.audio_state => conv'.announced = <<>>

\* C17: the spoken notice is one-time per outage: the trouble notice is enqueued
\* exactly once per change of audio_state from HEALTHY to RECONNECTING and 'Voice
\* connection restored.' exactly once per change back, however many failures are
\* reported while RECONNECTING.
C17_OneNoticePerChange == [][C17_Step]_vars

\* ------------------------------------------------------------------ C18
\* attach sets the conversation's session and the orchestrator's, detach clears both
C18_Step ==
    /\ \A s \in 1..MaxAttach :
          AttachAudioSession(s) =>
              /\ conv'.current_audio_session = s
              /\ conv'.orchestrator # "none" => conv'.orch_session = s
              /\ is_audio_connected(conv')
    /\ DetachAudioSession =>
          /\ conv'.current_audio_session = 0
          /\ conv'.orchestrator # "none" => conv'.orch_session = 0
          /\ ~is_audio_connected(conv')

\* C18: after every attach_audio_session(s) the conversation's current session and
\* the orchestrator's session both equal s, after every detach_audio_session() both
\* are null; is_audio_connected is true exactly when a session is attached.
C18_AttachDetach == [][C18_Step]_vars

\* ------------------------------------------------------------------ C19
\* the positions of the events of one type and turn on the UI topic
EventsAt(type, T) ==
    {i \in 1..Len(ui.events) : ui.events[i].type = type /\ ui.events[i].turn_id = T}

\* the events of turn T are complete and in order
TurnComplete(T) ==
    /\ Cardinality(EventsAt("user_message", T)) = 1
    /\ Cardinality(EventsAt("assistant_final", T)) = 1
    /\ \A i \in EventsAt("user_message", T), j \in EventsAt("assistant_delta", T) : i < j
    /\ \A i \in EventsAt("assistant_delta", T), j \in EventsAt("assistant_final", T) : i < j
    /\ \A i, j \in EventsAt("assistant_delta", T) :
          i < j => ui.events[i].seq < ui.events[j].seq
    /\ \A i \in EventsAt("assistant_delta", T) :
          (\A j \in EventsAt("assistant_delta", T) : i <= j) => ui.events[i].seq = 0

\* C19: for every turn T the UI topic gets exactly one user_message(T), zero or more
\* assistant_delta(T, seq) with seq increasing from 0, and exactly one
\* assistant_final(T), in this order.
C19_TurnEvents ==
    \A T \in 1..MaxTurns : [](ui.current_turn_id >= T => <>[]TurnComplete(T))

\* ------------------------------------------------------------------ C20
\* the highest risk each role may execute
AllowedUpTo == (GUEST :> LOW) @@ (USER :> MEDIUM) @@ (TRUSTED :> HIGH) @@ (ADMIN :> CRITICAL)

\* the risk of a tool: that of the policy map, HIGH for a tool the map does not have
RiskOf(tool) ==
    IF \E t \in DOMAIN POLICY : t = lower(tool) THEN POLICY[lower(tool)] ELSE HIGH

\* C20: for every tool name and role, check_access(tool, role) is true if and only if
\* the tool's risk level (HIGH for a tool absent from the policy map) is at most the
\* role's max_risk (GUEST: LOW, USER: MEDIUM, TRUSTED: HIGH, ADMIN: CRITICAL).
C20_GateDecision ==
    ret.op = "check_access" =>
        /\ ret.value = (RiskOf(ret.arg[1]) <= AllowedUpTo[ret.arg[2]])
        /\ ret.arg[1] \in {"format_disk", "shutdown", ""} =>
              ret.value = (ret.arg[2] \in {TRUSTED, ADMIN})
        /\ ret.arg[2] = GUEST =>
              ret.value = (ret.arg[1] \in {"get_current_datetime", "get_date", "get_time",
                                           "GET_TIME", "get_weather", "search_web",
                                           "Search_Web"})

\* C20 witness: a tool the policy does not know is HIGH, which a TRUSTED user is just
\* allowed
C20_Witness ==
    /\ ret.op = "check_access"
    /\ ret.arg = <<"format_disk", TRUSTED>>
    /\ ret.value

\* ------------------------------------------------------------------ C21
\* the audit trail of the executor call that returned last
Trail == RecordsOf(audit, ret.value.trace_id)

\* C21: every call of the governed tool executor that returns (the chaos fault apart)
\* has audit records sharing one trace id: one attempt record, followed by exactly one
\* of a blocked record or a result record (so a blocked record is never followed by a
\* result record of that trace id).
C21_AuditTrail ==
    (ret.op = "tool_executor" /\ ret.value.raised = "none" /\ ~ret.value.chaos_fired) =>
        /\ ret.value.trace_id # 0
        /\ Len(Trail) = 2
        /\ Trail[1].event = "execution_attempt"
        /\ Trail[2].event \in {"execution_blocked", "execution_result"}

\* ------------------------------------------------------------------ C22
\* the latest executor call was for a tool above the caller's cap
Denied == ret.op = "tool_executor" /\ RiskOf(ret.arg[1]) > AllowedUpTo[ret.arg[2]]

\* the denial text for the latest call
DenialText ==
    <<"Permission Denied: '", ret.arg[1], "' is classified as ",
      RiskName[RiskOf(ret.arg[1])], " risk. Your role (", RoleName[ret.arg[2]],
      ") only allows up to ", RiskName[AllowedUpTo[ret.arg[2]]], " risk.">>

\* the text ends with the other one
EndsWith(text, tail) ==
    /\ Len(text) >= Len(tail)
    /\ SubSeq(text, Len(text) - Len(tail) + 1, Len(text)) = tail

\* the denial is in the audit log, under the trace id of the attempt
DenialLogged ==
    /\ ret.value.trace_id # 0
    /\ Len(Trail) = 2
    /\ Trail[1].event = "execution_attempt"
    /\ Trail[2].event = "execution_blocked"
    /\ Trail[2].reason = DenialText

C24_ChaosRecorded ==
    (ret.op = "tool_executor" /\ ret.value.chaos_fired) =>
        /\ ~ret.value.invoked
        /\ ret.value.result = <<"Error: Tool ", ret.arg[1], " failed (Simulated Chaos)">>
        /\ \E i \in DOMAIN audit : audit[i].tool = ret.arg[1]

\* ------------------------------------------------------------------ C23
\* C23: when a tool's function raises during execution, the executor catches the
\* exception and writes an audit result record with success=false, and the user
\* receives the friendly message, with no LLM phrasing of the raw error.
C23_FriendlyFailure ==
    (ret.op = "llm_node" /\ ret.value.tool_raised) =>
        /\ ret.value.raised = "none"
        /\ Len(Trail) = 2
        /\ Trail[2].event = "execution_result"
        /\ Trail[2].success = FALSE
        /\ ret.value.returned = FriendlyMsg
        /\ ~ret.value.llm_invoked

\* ------------------------------------------------------------------ C25
\* C25: for every routed user message, when the RouteResult has handled=true and
\* needs_llm=false the response is returned verbatim and the LLM is not invoked in
\* that turn; in every other case the LLM is invoked.
C25_VerbatimOrLlm ==
    (ret.op = "llm_node" /\ ret.value.routed) =>
        IF ret.value.route.handled /\ ~ret.value.route.needs_llm
        THEN ret.value.returned = ret.value.route.response /\ ~ret.value.llm_invoked
        ELSE ret.value.llm_invoked

\* C25 witness: the executor raised, and the router's friendly message went to the
\* user as it was
C25_Witness ==
    /\ ret.op = "llm_node"
    /\ ret.value.routed
    /\ ret.value.route.handled
    /\ ~ret.value.route.needs_llm
    /\ ret.value.route.error # NoText
    /\ ret.value.returned = FriendlyMsg

\* ------------------------------------------------------------------ C26
\* C26: for every probed stream, either a chunk is delivered for the first request
\* within the first-chunk timeout, or StreamError is raised and the underlying stream
\* is closed (on the first-chunk timeout, on a stream that ends with zero chunks, on a
\* stream that raises); after the first chunk no timeout applies to later chunks.
C26_Step ==
    (probe.made /\ probe'.made) =>
        /\ ~probe.first_chunk_received =>
              \/ probe'.got = "chunk" /\ probe'.chunk_count = 1
              \/ /\ probe'.got = "StreamError"
                 /\ probe'.stream # "no close" => probe'.closed
        /\ (probe.first_chunk_received /\ probe'.events[Len(probe'.events)] = "late") =>
              probe'.got = "chunk"

C26_FirstChunkOrClosed == [][C26_Step]_vars

\* ------------------------------------------------------------------ C27
\* the run that ends in this step, and what ends it
RunEnds == monitor'.runs = monitor.runs + 1

Failures == Faults \cup {"Stream timeout", "Stream ended", "Stream error"}

\* the metrics of the request at its start, and the record the step appends
Appended == monitor'.metrics_history[Len(monitor'.metrics_history)]

AppendsOne == Len(monitor'.metrics_history) = Len(monitor.metrics_history) + 1

C27_Step ==
    RunEnds =>
        /\ monitor'.met \in Failures =>
              /\ AppendsOne
              /\ Appended.probe_failures = NewRequestMetrics.probe_failures + 1
              /\ monitor'.raised = "Exception"
        /\ monitor'.met = "completes" =>
              /\ AppendsOne
              /\ Appended.probe_failures = 0
              /\ monitor'.raised = "none"
        /\ SubSeq(monitor'.metrics_history, 1, Len(monitor.metrics_history))
              = monitor.metrics_history

\* C27: every SmartLLM chat call that fails (first-chunk timeout, empty stream, stream
\* exception or injected fault) increments probe_failures by 1 for that turn, appends
\* exactly one RequestMetrics record to the history and surfaces the error to the
\* caller; every successful call appends exactly one record with probe_failures 0.
C27_OneRecordPerCall == [][C27_Step]_vars

\* C27 witness: a run that timed out on its first chunk after a run that completed
C27_Witness ==
    /\ monitor.runs = 2
    /\ monitor.met = "Stream timeout"
    /\ Len(monitor.metrics_history) = 2
    /\ monitor.metrics_history[1].probe_failures = 0
    /\ monitor.metrics_history[2].probe_failures = 1

\* ------------------------------------------------------------------ C28
\* the places of the non-system messages of a context, in order
NonSystem(ctx) == SelectSeq(ctx, LAMBDA msg : msg.role # "system")

\* C28: for every SmartLLM chat call, the context handed to the underlying LLM has the
\* system prompt as its first message and no other system message, followed by all
\* non-system messages of the input context in their original order; the input
\* context itself is not modified.
C28_FreshContext ==
    ret.op = "new_ctx" =>
        LET out == ret.value.new_ctx
            rest == Tail(out)
        IN  /\ Len(out) >= 1
            /\ out[1] = [role |-> "system", content |-> <<ret.arg[2]>>]
            /\ \A i \in DOMAIN rest : rest[i].role # "system"
            /\ Len(rest) = Cardinality({i \in DOMAIN ret.arg[1] :
                                            ret.arg[1][i].role # "system"})
            /\ \A i \in DOMAIN rest : rest[i] = ret.arg[1][rest[i].content]
            /\ \A i, j \in DOMAIN rest : i < j => rest[i].content < rest[j].content
            /\ ret.value.chat_ctx = ret.arg[1]

\* C28 witness: a context with an old system prompt between two other messages
C28_Witness ==
    /\ ret.op = "new_ctx"
    /\ Len(ret.arg[1]) = 3
    /\ ret.arg[1][1].role = "user"
    /\ ret.arg[1][2].role = "system"
    /\ ret.arg[1][3].role = "assistant"
    /\ Len(ret.value.new_ctx) = 3

\* ------------------------------------------------------------------ C29
\* C29: for every turn and every tool passed to the underlying LLM, the tool's
\* parameter schema has type 'object' and contains a 'properties' key, whatever shape
\* the tool had when it was supplied; the tools supplied by the caller are not mutated.
C29_ObjectSchemas ==
    ret.op = "fixed_tools" =>
        /\ \A i \in DOMAIN ret.value.schemas :
              /\ ret.value.schemas[i].type = "object"
              /\ ret.value.schemas[i].properties
        /\ ret.value.limit_tools = ret.arg

\* ------------------------------------------------------------------ C30
\* the answer of a check whose limit is reached or passed (breached), and of one
\* whose limit is not
Answers(breached) ==
    /\ ret'.value = ~breached
    /\ guard'.emergency_stop_triggered = (breached \/ guard.emergency_stop_triggered)

C30_Step ==
    /\ \A tokens_in, tokens_out \in TokenCounts :
          CheckTokenBudget(tokens_in, tokens_out) =>
              Answers(guard.total_tokens_used + tokens_in + tokens_out >= 50000)
    /\ \A retry_count \in 0..MaxRetry :
          CheckRetryLimit(retry_count) => Answers(retry_count >= 5)
    /\ CheckSessionDuration => Answers(guard.elapsed >= 300)
    /\ RecordFailure => Answers(guard.consecutive_failures + 1 >= 10)
    /\ (guard.emergency_stop_triggered /\ ~ResetSession) => guard'.emergency_stop_triggered
    /\ ResetSession => ~guard'.emergency_stop_triggered
    /\ ShouldStop => ret'.value = guard.emergency_stop_triggered

OverWarning(metrics) ==
    \/ metrics.context_size > thresholds.context_tokens.warning
    \/ metrics.llm_latency > thresholds.llm_latency.warning
    \/ metrics.stream_first_chunk_latency > thresholds.first_chunk_latency.warning
    \/ metrics.retry_count > thresholds.retries_per_request.warning
    \/ metrics.memory_retrieval_count > thresholds.memory_retrieval_count.warning

\* some monitored metric of a closed request is at or over its warning level
AtWarning(metrics) ==
    \/ metrics.context_size >= thresholds.context_tokens.warning
    \/ metrics.llm_latency >= thresholds.llm_latency.warning
    \/ metrics.stream_first_chunk_latency >= thresholds.first_chunk_latency.warning
    \/ metrics.retry_count >= thresholds.retries_per_request.warning
    \/ metrics.memory_retrieval_count >= thresholds.memory_retrieval_count.warning

\* the degraded turns among the first i closed turns, Degraded telling which they are
DegradedUpTo(Degraded(_), i) ==
    {j \in 1..i : Degraded(recovery.metrics_history[j])}

\* the latest of them (0: none)
LastDegraded(Degraded(_), i) ==
    IF DegradedUpTo(Degraded, i) = {} THEN 0
    ELSE CHOOSE j \in DegradedUpTo(Degraded, i) : \A k \in DegradedUpTo(Degraded, i) : k <= j

\* the tracker follows its rule: it is in recovery from the first degraded turn until
\* the third healthy turn in a row, and that turn alone carries system_recovery_turns
Tracks(Degraded(_)) ==
    LET closed == Len(recovery.metrics_history)
    IN  /\ recovery.in_recovery <=>
              /\ LastDegraded(Degraded, closed) > 0
              /\ closed - LastDegraded(Degraded, closed) < 3
        /\ \A i \in 1..closed :
              recovery.metrics_history[i].system_recovery_turns # 0 <=>
                  /\ LastDegraded(Degraded, i) > 0
                  /\ i - LastDegraded(Degraded, i) = 3

\* C31 as stated: tracking starts at the first turn in which a monitored metric exceeds
\* its warning threshold, and recovery is declared exactly at the third healthy turn in
\* a row after the last degraded turn
C31_ExceedsWarning == Tracks(OverWarning)

\* C31, amended: tracking starts at the first turn in which a monitored metric reaches or
\* exceeds its warning threshold (a healthy turn has every metric below it), and recovery
\* is declared (in_recovery false, system_recovery_turns set) exactly at the third healthy
\* turn in a row after the last degraded turn
C31_ReachesWarning == Tracks(AtWarning)

\* recovery has been declared three healthy turns after a degraded one, and the
\* healthy turn after it declares nothing
C31_Witness ==
    /\ Len(recovery.metrics_history) = 5
    /\ AtWarning(recovery.metrics_history[1])
    /\ recovery.metrics_history[4].system_recovery_turns = 3
    /\ recovery.metrics_history[5].system_recovery_turns = 0
    /\ ~recovery.in_recovery

\* ------------------------------------------------------------------ C38
\* C38: after disable_faults(), whatever enable_faults configuration preceded it, chaos
\* is disabled and every fault knob (llm_latency_multiplier, rate_limit_probability,
\* tool_failure_rate, persistence_failure_rate, memory_inflation_factor,
\* long_session_mode) is back at its neutral default
C38_FaultsCleared ==
    ret.op = "disable_faults" =>
        /\ ~chaos.enabled
        /\ \A knob \in Knobs : chaos[knob] = NewChaos[knob]

\* ------------------------------------------------------------------ C32
\* baseline, chaos, recovery
PhaseRank(phase) == CASE phase = "baseline" -> 1 [] phase = "chaos" -> 2 [] OTHER -> 3

\* C32: in run_experiment the turns run in the order baseline, chaos, recovery; fault
\* injection is enabled during every chaos-phase turn and during no baseline or recovery
\* turn; once the emergency stop is triggered no further turn runs; and on every return
\* path fault injection is disabled
C32_Lifecycle ==
    /\ \A i, j \in DOMAIN experiment.ran :
          i < j => PhaseRank(experiment.ran[i].phase) <= PhaseRank(experiment.ran[j].phase)
    /\ \A i \in DOMAIN experiment.ran :
          /\ experiment.ran[i].faults <=> experiment.ran[i].phase = "chaos"
          /\ ~experiment.ran[i].stopped
    /\ experiment.pc = "returned" => ~chaos.enabled

\* ------------------------------------------------------------------ C33
\* the callers that have returned from an accessor
BackFrom(accessor) ==
    {t \in DOMAIN singletons.callers :
        singletons.callers[t].accessor = accessor /\ singletons.callers[t].pc = "done"}

\* C33: under concurrent first calls of get_registry() (and get_classifier()) exactly one
\* instance is ever created and every caller receives that same instance
C33_OneInstance ==
    /\ singletons.registries <= 1
    /\ singletons.classifiers <= 1
    /\ \A accessor \in Accessors : \A t, u \in BackFrom(accessor) :
          singletons.callers[t].got = singletons.callers[u].got

\* ------------------------------------------------------------------ C34
\* how often a name stands in a category list
Occurrences(name, list) == Cardinality({i \in DOMAIN list : list[i] = name})

\* C34: after any sequence of register_tool calls every registered tool name appears in
\* exactly one category list, the list of the category of its latest registration, and
\* appears there once (get_tools_by_category returns it for that category alone);
\* registering the same metadata twice leaves the registry as after registering it once
C34_OneCategory ==
    /\ \A name \in DOMAIN registry._tools : \A category \in DOMAIN registry._categories :
          /\ Occurrences(name, registry._categories[category]) =
                IF category = registry._tools[name].category THEN 1 ELSE 0
          /\ in(registry._tools[name], get_tools_by_category(registry, category))
                <=> category = registry._tools[name].category
    /\ \A name \in DOMAIN registry._tools :
          registry._tools[name].category \in DOMAIN registry._categories
    /\ \A metadata \in Metadata :
          register_tool(register_tool(registry, metadata), metadata)
              = register_tool(registry, metadata)

\* a tool has been registered again under another category: its old category list is
\* left empty, and another tool shares its new list
C34_Witness ==
    /\ ret.op = "register_tool"
    /\ \E category \in DOMAIN registry._categories : registry._categories[category] = <<>>
    /\ Len(registry._categories[ret.arg.category]) = 2

\* ------------------------------------------------------------------ C35
\* C35: for any interleaving of concurrent acquire() calls at most max_calls acquisitions
\* complete within any time window of length period (the acquisition max_calls places
\* after another one is at least period later); the first max_calls acquisitions
\* complete without waiting and the next one completes only once the oldest one is
\* at least period old
C35_RateBound ==
    /\ \A i, j \in DOMAIN limiter.acquired :
          j = i + limiter.max_calls =>
              limiter.acquired[j].at - limiter.acquired[i].at >= limiter.period
    /\ \A i \in DOMAIN limiter.acquired :
          i <= limiter.max_calls => ~limiter.acquired[i].waited

\* ------------------------------------------------------------------ C36
\* the turn ids the orchestrator has used so far
UsedTurnIds ==
    {ui.current_turn_id} \cup {ui.tasks[i].turn_id : i \in DOMAIN ui.tasks}
        \cup {ui.events[i].turn_id : i \in DOMAIN ui.events}

\* the step opens a turn: a fresh turn_id, the assistant buffer empty, delta_seq 0 and
\* one more publish task, the one of user_message for the new turn
OpensTurn ==
    /\ ui'.current_turn_id \notin UsedTurnIds
    /\ ui'.assistant_buffer = ""
    /\ ui'.delta_seq = 0
    /\ ui'.tasks = Append(ui.tasks, [type |-> "user_message",
                                     turn_id |-> ui'.current_turn_id, seq |-> 0])
    /\ ui'.events = ui.events

C36_Step ==
    /\ \A is_final \in BOOLEAN, participant \in Participants :
          TranscriptionReceived(is_final, participant) =>
              IF is_final /\ participant = "local" THEN OpensTurn ELSE ui' = ui
    /\ ui'.current_turn_id # ui.current_turn_id => TranscriptionReceived(TRUE, "local")

\* C36: a turn is opened only by a transcription event that is final and comes from the
\* local participant: such an event assigns a fresh turn_id, clears the assistant buffer,
\* resets delta_seq to 0 and publishes one user_message (it creates the one task that
\* publishes it); any other transcription event leaves the turn state unchanged and
\* publishes nothing
C36_OpensTurn == [][C36_Step]_vars

\* two turns have been opened and the user_message of the first is on the UI topic
C36_Witness ==
    /\ ui.current_turn_id = 2
    /\ \E i \in DOMAIN ui.events :
          ui.events[i] = [type |-> "user_message", turn_id |-> 1, seq |-> 0]
    /\ \E i \in DOMAIN ui.tasks : ui.tasks[i].turn_id = 2

\* ------------------------------------------------------------------ C37
\* C37: chaos faults are applied before the underlying LLM is invoked: when a simulated
\* 429 or 500 fault fires, the underlying LLM's chat is never called in that turn (the
\* request is closed as a failure); when chaos is disabled, no latency, rate-limit or
\* failure fault is applied whatever the knob values are
C37_FaultsBeforeChat ==
    /\ ret.op = "_run" =>
          /\ ret.value.fault \in {"429", "500"} =>
                ~ret.value.chat_called /\ monitor.pc = "idle" /\ monitor.met = ret.value.fault
          /\ ~chaos.enabled =>
                ~ret.value.slept /\ ret.value.fault = "none" /\ ret.value.chat_called
          /\ (/\ chaos.enabled /\ chaos.tool_failure_rate > 0
              /\ ret.arg[1] >= chaos.rate_limit_probability
              /\ ret.arg[2] < chaos.tool_failure_rate) => ret.value.fault = "500"
    /\ \A c \in ChaosConfigs, rate_draw, failure_draw \in Draws :
          ~c.enabled => chaos_faults(c, rate_draw, failure_draw) = Injection(FALSE, "none")

\* a run in which the simulated 500 fired after the injected latency
C37_Witness ==
    /\ ret.op = "_run"
    /\ chaos.enabled
    /\ ret.value.slept
    /\ ret.value.fault = "500"
    /\ ~ret.value.chat_called

\* ------------------------------------------------------------------ C39
\* the places of metrics_history that stream s appended
AppendedBy(s) ==
    {i \in DOMAIN collector.metrics_history : collector.metrics_history[i].by = s}

\* C39: for any interleaving of start_request / record_metric / end_request issued by
\* two overlapping LLM streams and by the supervisor's background loops, each completed
\* turn appends exactly one RequestMetrics record that is distinct from every other
\* record and holds only the values recorded for that turn (no value of another stream)
C39_OneRecordPerTurn ==
    \A s \in DOMAIN collector.streams :
        collector.streams[s] = "done" =>
            /\ Cardinality(AppendedBy(s)) = 1
            /\ \A i \in AppendedBy(s) :
                  /\ \A j \in DOMAIN collector.metrics_history :
                        j # i => collector.metrics_history[j].object
                                     # collector.metrics_history[i].object
                  /\ \A entry \in collector.objects[collector.metrics_history[i].object] :
                        entry[1] \in {s, 0}

\* ------------------------------------------------------------------ C40
\* C40: when a tool succeeds and needs LLM phrasing, the "Tool Result: {r}. Phrase
\* this naturally." message llm_node injected into the chat context is one of the
\* messages the underlying LLM receives for that turn
C40_ToolResultReceived ==
    (/\ ret.op = "phrase"
     /\ ret.value.added = <<"Tool Result: ">> \o Str(ToolResult(ret.arg[1]))
                               \o <<". Phrase this naturally.">>) =>
        /\ ret.value.llm_invoked
        /\ \E i \in DOMAIN ret.value.received :
              ret.value.received[i].content = ret.value.added

====
